---- MODULE Spec2Model ----
(***************************************************************************)
(* State-machine model of the dodo task engine: Agent.do -> TaskRunner.run *)
(* (bounded iteration loop), ToolRegistry.execute_tool_calls (ordered      *)
(* batch dispatch with early stop), the two control tools, the memory      *)
(* manager (_prepare_messages, lifespan filter) and Agent.redo             *)
(* (RedoRunner.replay).  One action per stretch of code between two awaits.*)
(* Spec: one task with the full call alphabet.  SpecAgent: several tasks   *)
(* on one Agent, with failures of the model, observe() and cancellation.   *)
(* SpecMemory: one task with a small recent_window and content lifespans.  *)
(* SpecRedo: one task followed by Agent.redo of its Run.  SpecCalls: do,   *)
(* redo and reset interleaved on one Agent.  SpecTools: one task with a    *)
(* tool made by @tool and an output_schema for complete_work.  SpecLog:    *)
(* one task whose model texts and calls exercise the action log.           *)
(* SpecEvict: a long task with a tool whose result lives one model call.   *)
(* SpecRegistry: a ToolRegistry under register and clear.  SpecOverride:   *)
(* Agents whose tools carry the names of the control tools.                *)
(* SpecConcurrent: two do() coroutines interleaved on one Agent.           *)
(***************************************************************************)
EXTENDS Integers, Sequences, FiniteSets, TLC

\* ---------------------------------------------------------------- bounds
\* largest max_iterations argument explored
MaxIter == 2
\* largest number of tool calls the model issues in one run
MaxCalls == 3
\* largest number of task invocations on one Agent (SpecAgent)
MaxTasks == 2
\* largest max_iterations argument of those invocations (SpecAgent)
MaxAgentIter == 1
\* max_iterations argument of the task of SpecMemory
MemIter == 3
\* largest MemoryConfig.recent_window (SpecMemory)
MaxWindow == 2
\* largest lifespan the observe callback sets (SpecMemory)
MaxLifespan == 2
\* max_iterations argument of the task of SpecEvict
EvictIter == 4

\* ----------------------------------------------------------------- state
VARIABLES
    pc,                     \* position of the task invocation
    stateful,               \* Agent.stateful
    previous_runs,          \* Agent._previous_runs
    do_outcome,             \* how Agent.do ended: None, returned Run or raised
    max_iterations,         \* argument of TaskRunner.run
    task_result,            \* the TaskResult shared with the control tools
    tool_registry,          \* the per-run registry
    session_start_messages, \* bootstrap messages
    iteration,              \* loop variable of TaskRunner.run
    pairs,                  \* List[MessagePair]
    model_msg,              \* the model message of this iteration
    idx,                    \* loop index of execute_tool_calls
    results,                \* results list of execute_tool_calls
    run,                    \* the Run returned by TaskRunner.run
    observe_count,          \* number of observe() samples taken
    user_content,           \* bootstrap user content before observe()
    events,                 \* history: model calls, tool executions, observes
    invocation,             \* number of task invocations started on the Agent
    recent_window,          \* MemoryConfig.recent_window of the Agent
    obs_lifespan,           \* lifespan the observe callback puts on its content
    output_schema,          \* output_schema the caller passes to Agent.do
    llm_inputs,             \* message lists passed to llm.call_tools in this run
    redo_pos,               \* loop position of RedoRunner.replay
    redo_outcome,           \* how Agent.redo ended
    agent_tools,            \* Agent.tools, the tools the Agent was built with
    frames,                 \* locals of the do() coroutines that run interleaved
    acting                  \* history: the coroutine that took the last step

vars == <<pc, stateful, previous_runs, do_outcome, max_iterations, task_result,
          tool_registry, session_start_messages, iteration, pairs, model_msg,
          idx, results, run, observe_count, user_content, events, invocation,
          recent_window, obs_lifespan, output_schema, llm_inputs, redo_pos,
          redo_outcome, agent_tools, frames, acting>>

\* the Agent's configuration, fixed at construction, and the output_schema
\* its caller uses
config_vars == <<stateful, recent_window, obs_lifespan, output_schema,
                agent_tools>>

\* the state of Agent.redo
redo_vars == <<redo_pos, redo_outcome>>

\* the state of interleaved do() coroutines
conc_vars == <<frames, acting>>

\* ------------------------------------------------------------- constants
\* Python's None
None == "None"
\* Content.lifespan = None, among the integers a lifespan can be
NoLifespan == 0 - 1
\* TaskResult.status before any control tool fired (status = None)
Pending == None
\* TaskStatus enum values
COMPLETED == "completed"
ABORTED == "aborted"
\* ToolResultStatus enum values
SUCCESS == "success"
ERROR == "error"
SKIPPED == "skipped"
\* feedback written by the for-else branch of TaskRunner.run
MaxIterationsFeedback == "Reached maximum iterations"
\* fallback message of TaskAbortedError in Agent._run_task
TaskAbortedDefault == "Task aborted"

\* dict.get(k) with default None
Get(d, k) == IF k \in DOMAIN d THEN d[k] ELSE None

\* Python truthiness of an Optional[str]
Truthy(s) == s # None /\ s # ""

\* ------------------------------------------------------------------ tools
\* A tool is [name, kind, required]; kind selects the execute body.  The
\* complete_work tool also has the output schema its Params were built with.
CompleteWorkTool ==
    [name |-> "complete_work", kind |-> "complete", required |-> {"feedback"},
     schema |-> None]
AbortWorkTool == [name |-> "abort_work", kind |-> "abort", required |-> {"reason"}]
\* the domain tool handed to the Agent (tests use AddTool)
AddTool == [name |-> "add", kind |-> "user", required |-> {"a", "b"}]
\* a tool made by @tool from `async def divide(a: int, b: int) -> str`
DivideTool == [name |-> "divide", kind |-> "decorated", required |-> {"a", "b"}]
\* a tool without parameters whose result is for the next model call only
PeekTool == [name |-> "peek", kind |-> "ephemeral", required |-> {}]
\* tools of the user that carry the names of the control tools
UserCompleteTool == [name |-> "complete_work", kind |-> "user", required |-> {}]
UserAbortTool == [name |-> "abort_work", kind |-> "user", required |-> {}]
\* Agent.tools
AgentTools == <<AddTool, DivideTool, PeekTool>>

\* what the execute of a user tool can do: return a plain success, return a
\* success with terminal=True, return an error result, or raise
UserOutcomes == {"success", "terminal", "error", "raise"}

\* a registration that keeps the tool already held under the name
register_KeepsFirst(reg, tool) ==
    IF tool.name \in DOMAIN reg THEN reg
    ELSE [n \in (DOMAIN reg) \cup {tool.name} |-> IF n = tool.name THEN tool ELSE reg[n]]

\* ToolRegistry.register: self._tools[tool.name] = tool
register(reg, tool) ==
    [n \in (DOMAIN reg) \cup {tool.name} |-> IF n = tool.name THEN tool ELSE reg[n]]

RECURSIVE registerAll(_, _)
registerAll(reg, tools) ==
    IF tools = <<>> THEN reg
    ELSE registerAll(register(reg, Head(tools)), Tail(tools))

\* ToolRegistry() : empty dict
EmptyRegistry == [n \in {} |-> None]

\* ToolRegistry.get: the tool under the name, or KeyError
get(reg, name) ==
    IF name \notin DOMAIN reg
    THEN [raised |-> "KeyError", msg |-> "Tool '" \o name \o "' not found in registry"]
    ELSE reg[name]

\* ToolRegistry.get_all: list(self._tools.values()), as the set of its items
get_all(reg) == {reg[n] : n \in DOMAIN reg}

\* ToolRegistry.clear: self._tools.clear()
clear(reg) == EmptyRegistry

\* a setup that registers the control tools before the domain tools
_setup_tools_ControlFirst(tools, schema) ==
    registerAll(register(register(EmptyRegistry,
                                  [CompleteWorkTool EXCEPT !.schema = schema]),
                         AbortWorkTool),
                tools)

\* TaskRunner._setup_tools: domain tools first, control tools last
_setup_tools(tools, schema) ==
    register(register(registerAll(EmptyRegistry, tools),
                      [CompleteWorkTool EXCEPT !.schema = schema]),
             AbortWorkTool)

\* the output schema of the tests: class OutputData(BaseModel): value: int
OutputData == "OutputData"

\* output_schema.model_validate(v) succeeds: the required field is there
SchemaValid(schema, v) == "value" \in DOMAIN v

\* the instance validation builds from the dict v
SchemaParse(schema, v) == [model |-> schema, value |-> v.value]

\* TaskResult.output = None / params.output = None
NoOutput == [none |-> TRUE]

\* tool.Params(**arguments): every required field is supplied
ParamsValid(tool, arguments) ==
    /\ tool.required \subseteq DOMAIN arguments
    /\ (tool.kind = "complete" /\ tool.schema # None /\ "output" \in DOMAIN arguments)
       => SchemaValid(tool.schema, arguments.output)

\* the params object tool.Params(**arguments) of a valid call: the output of
\* complete_work defaults to None and is parsed into the schema when one was
\* supplied (Optional[Any] keeps the dict as it is)
Params(tool, arguments) ==
    IF tool.kind # "complete" THEN arguments
    ELSE [feedback |-> arguments.feedback,
          output |-> IF "output" \notin DOMAIN arguments THEN NoOutput
                     ELSE IF tool.schema # None
                     THEN SchemaParse(tool.schema, arguments.output)
                     ELSE arguments.output]

\* ------------------------------------------------------------- content
ToolResult(id, name, status, error, description, terminal) ==
    [type |-> "ToolResult", tool_call_id |-> id, name |-> name, status |-> status,
     error |-> error, description |-> description, terminal |-> terminal,
     lifespan |-> NoLifespan]

Text(t) == [type |-> "Text", text |-> t, lifespan |-> NoLifespan]

ToolCall(id, name, arguments) ==
    [type |-> "ToolCall", id |-> id, name |-> name, arguments |-> arguments]

Message(role, content) == [role |-> role, content |-> content]

\* ModelMessage.tool_calls: the ToolCall items of the content, in order
tool_calls_of(msg) == SelectSeq(msg.content, LAMBDA c : c.type = "ToolCall")

\* ------------------------------------------------- what the model may ask
\* arguments the model may pass (a dict from field name to value)
CompleteArgs == {[feedback |-> "ok"], [bogus |-> 1]}
AbortArgs == {[reason |-> ""], [reason |-> "blocked"],
              [reason |-> MaxIterationsFeedback]}
AddArgs == {[a |-> 1, b |-> 2]}
\* (name, arguments) of the tool calls the model adapter may return
CallKinds ==
    ({"complete_work"} \X CompleteArgs) \cup ({"abort_work"} \X AbortArgs)
    \cup ({"add"} \X AddArgs) \cup {<<"nope", [a |-> 1]>>}

\* the calls of the short sessions: one control call of each kind, one user call
BriefKinds ==
    {<<"complete_work", [feedback |-> "ok"]>>, <<"abort_work", [reason |-> "blocked"]>>,
     <<"add", [a |-> 1, b |-> 2]>>}
\* a model message of the short sessions: no call or one call
BriefBatches == {<<>>} \cup {<<k>> : k \in BriefKinds}
\* the same without the user tool: no call or one control call, abort_work
\* also with an empty reason
ControlBatches ==
    {b \in BriefBatches : b = <<>> \/ b[1][1] # "add"}
    \cup {<<<<"abort_work", [reason |-> ""]>>>>}
\* the text content of such a message: none, or one line of reasoning
BriefThoughts == {<<>>, <<[type |-> "Text", text |-> "think", lifespan |-> NoLifespan]>>}
\* lifespans the observe callback may set: None or a positive integer
Lifespans == {NoLifespan} \cup (1 .. MaxLifespan)

\* batches of at most n calls
RECURSIVE Batches(_)
Batches(n) ==
    IF n = 0 THEN {<<>>}
    ELSE LET B == Batches(n - 1) IN
         B \cup {Append(b, k) : b \in {x \in B : Len(x) = n - 1}, k \in CallKinds}

\* max_iterations arguments explored (the parameter is an unchecked int)
MaxIterationsArgs == (0 - 1) .. MaxIter

\* ---------------------------------------------------------- Run assembly
\* "\n".join(lines)
RECURSIVE Join(_)
Join(lines) ==
    IF lines = <<>> THEN ""
    ELSE IF Len(lines) = 1 THEN lines[1]
    ELSE lines[1] \o "\n" \o Join(Tail(lines))

\* TaskRunner._extract_reasoning: first content item with a non-empty text
_extract_reasoning(msg) ==
    LET texts == SelectSeq(msg.content, LAMBDA c : c.type = "Text" /\ c.text # "")
    IN IF texts = <<>> THEN None ELSE texts[1].text

\* str.strip() on the texts the model adapter returns here
Strip(s) == IF s = " plan " THEN "plan" ELSE s

\* a summary that leaves out the calls that were not executed
SummaryLines_OmitsSkipped(pair) ==
    LET reasoning == _extract_reasoning(pair[1])
        trs == SelectSeq(pair[2].content,
                         LAMBDA c : c.type = "ToolResult" /\ c.status # SKIPPED)
    IN (IF reasoning # None THEN <<"- " \o Strip(reasoning)>> ELSE <<>>)
       \o [i \in 1 .. Len(trs) |->
              IF trs[i].status = ERROR
              THEN "  - " \o trs[i].description \o " [FAILED: " \o trs[i].error \o "]"
              ELSE "  - " \o trs[i].description]

\* a summary that lists only the results whose lifespan is not set
SummaryLines_HonoursLifespan(pair) ==
    LET reasoning == _extract_reasoning(pair[1])
        trs == SelectSeq(pair[2].content,
                         LAMBDA c : c.type = "ToolResult" /\ c.lifespan = NoLifespan)
    IN (IF reasoning # None THEN <<"- " \o Strip(reasoning)>> ELSE <<>>)
       \o [i \in 1 .. Len(trs) |->
              IF trs[i].status = ERROR
              THEN "  - " \o trs[i].description \o " [FAILED: " \o trs[i].error \o "]"
              ELSE "  - " \o trs[i].description]

\* the lines one pair adds to the summary (single-line reasoning)
SummaryLines(pair) ==
    LET reasoning == _extract_reasoning(pair[1])
        trs == SelectSeq(pair[2].content, LAMBDA c : c.type = "ToolResult")
    IN (IF reasoning # None THEN <<"- " \o Strip(reasoning)>> ELSE <<>>)
       \o [i \in 1 .. Len(trs) |->
              IF trs[i].status = ERROR
              THEN "  - " \o trs[i].description \o " [FAILED: " \o trs[i].error \o "]"
              ELSE "  - " \o trs[i].description]

RECURSIVE AllSummaryLines(_)
AllSummaryLines(ps) ==
    IF ps = <<>> THEN <<>> ELSE SummaryLines(Head(ps)) \o AllSummaryLines(Tail(ps))

\* TaskRunner._build_summary
_build_summary(ps) == IF ps = <<>> THEN "" ELSE Join(AllSummaryLines(ps))

\* MemoryConfig.recent_window default
DefaultRecentWindow == 5

\* a filter that keeps an item one pair too long
_filter_content_by_lifespan_Inclusive(msg, distance_from_end) ==
    IF msg.content = <<>> THEN msg
    ELSE [msg EXCEPT !.content =
             SelectSeq(msg.content,
                       LAMBDA c : c.lifespan = NoLifespan \/ distance_from_end <= c.lifespan)]

\* TaskRunner._filter_content_by_lifespan; a content of None is the empty
\* sequence here
_filter_content_by_lifespan(msg, distance_from_end) ==
    IF msg.content = <<>> THEN msg
    ELSE [msg EXCEPT !.content =
             SelectSeq(msg.content,
                       LAMBDA c : c.lifespan = NoLifespan \/ distance_from_end < c.lifespan)]

\* the recent pairs of _prepare_messages as messages, user messages filtered
\* by distance_from_end = num_recent - 1 - idx
RECURSIVE RecentMessages(_)
RecentMessages(recent_pairs) ==
    IF recent_pairs = <<>> THEN <<>>
    ELSE <<Head(recent_pairs)[1],
           _filter_content_by_lifespan(Head(recent_pairs)[2], Len(recent_pairs) - 1)>>
         \o RecentMessages(Tail(recent_pairs))

\* a _prepare_messages whose summary also covers the recent pairs
_prepare_messages_SummarizesAll(start_messages, ps, window) ==
    LET compacts == Len(ps) > window
        summary == _build_summary(ps)
        recent_pairs == IF compacts THEN SubSeq(ps, Len(ps) - window + 1, Len(ps)) ELSE ps
    IN start_messages
       \o (IF compacts /\ Truthy(summary)
           THEN <<Message("user", <<Text("Previous actions in this session:\n" \o summary)>>)>>
           ELSE <<>>)
       \o RecentMessages(recent_pairs)

\* a _prepare_messages that puts the summary after the recent pairs
_prepare_messages_SummaryLast(start_messages, ps, window) ==
    LET compacts == Len(ps) > window
        old_pairs == IF compacts THEN SubSeq(ps, 1, Len(ps) - window) ELSE <<>>
        summary == _build_summary(old_pairs)
        recent_pairs == IF compacts THEN SubSeq(ps, Len(ps) - window + 1, Len(ps)) ELSE ps
    IN start_messages
       \o RecentMessages(recent_pairs)
       \o (IF compacts /\ Truthy(summary)
           THEN <<Message("user", <<Text("Previous actions in this session:\n" \o summary)>>)>>
           ELSE <<>>)

\* a _prepare_messages that also filters the bootstrap user message, as the
\* oldest message of the list
_prepare_messages_FiltersBootstrap(start_messages, ps, window) ==
    LET compacts == Len(ps) > window
        old_pairs == IF compacts THEN SubSeq(ps, 1, Len(ps) - window) ELSE <<>>
        summary == _build_summary(old_pairs)
        recent_pairs == IF compacts THEN SubSeq(ps, Len(ps) - window + 1, Len(ps)) ELSE ps
    IN <<start_messages[1],
         _filter_content_by_lifespan(start_messages[2], Len(recent_pairs))>>
       \o (IF compacts /\ Truthy(summary)
           THEN <<Message("user", <<Text("Previous actions in this session:\n" \o summary)>>)>>
           ELSE <<>>)
       \o RecentMessages(recent_pairs)

\* TaskRunner._prepare_messages with self._memory.recent_window = window
_prepare_messages(start_messages, ps, window) ==
    LET compacts == Len(ps) > window
        old_pairs == IF compacts THEN SubSeq(ps, 1, Len(ps) - window) ELSE <<>>
        summary == _build_summary(old_pairs)
        recent_pairs == IF compacts THEN SubSeq(ps, Len(ps) - window + 1, Len(ps)) ELSE ps
    IN start_messages
       \o (IF compacts /\ Truthy(summary)
           THEN <<Message("user", <<Text("Previous actions in this session:\n" \o summary)>>)>>
           ELSE <<>>)
       \o RecentMessages(recent_pairs)

\* pairs flattened with the user message first
RECURSIVE FlattenPairs_UserFirst(_)
FlattenPairs_UserFirst(ps) ==
    IF ps = <<>> THEN <<>>
    ELSE <<Head(ps)[2], Head(ps)[1]>> \o FlattenPairs_UserFirst(Tail(ps))

\* messages of the Run: every pair flattened to (model, user)
RECURSIVE FlattenPairs(_)
FlattenPairs(ps) ==
    IF ps = <<>> THEN <<>> ELSE <<Head(ps)[1], Head(ps)[2]>> \o FlattenPairs(Tail(ps))

\* the task text of the n-th invocation on the Agent
TaskText(n) == "task " \o ToString(n)

\* the task argument of the running invocation
task == TaskText(invocation)

\* the Run(...) built at the end of TaskRunner.run; the keywords result= and
\* summary= are those of runner.py (runner/run.py calls the same two fields
\* _result and action_log and reads them through Run.feedback / Run.output)
MakeRun(res, ps, iterations_used, max_it) ==
    [result |-> res, summary |-> _build_summary(ps), messages |-> FlattenPairs(ps),
     task_description |-> task, steps_used |-> iterations_used, max_steps |-> max_it]

\* value of run before TaskRunner.run has returned
NoRun == [none |-> TRUE]
\* value of model_msg outside an iteration
NoMessage == [none |-> TRUE]
\* value of do_outcome while Agent.do has not ended
NoOutcome == [kind |-> "none"]

\* TaskResult()
NewTaskResult == [status |-> Pending, output |-> NoOutput, feedback |-> None]

\* str.capitalize() of a TaskStatus value
Capitalize(s) == IF s = COMPLETED THEN "Completed" ELSE IF s = ABORTED THEN "Aborted" ELSE s

\* TaskRunner._format_previous_runs
RECURSIVE FormatRunLines(_, _)
FormatRunLines(runs, i) ==
    IF i > Len(runs) THEN <<>>
    ELSE <<"### Task " \o ToString(i),
           "Task: " \o runs[i].task_description,
           "Status: " \o Capitalize(runs[i].result.status)>>
         \o (IF Truthy(runs[i].result.feedback)
             THEN <<"Feedback: " \o runs[i].result.feedback>> ELSE <<>>)
         \o <<"">> \o FormatRunLines(runs, i + 1)

_format_previous_runs(runs) == Join(<<"## Previous tasks:", "">> \o FormatRunLines(runs, 1))

\* a bootstrap that puts the current task before the previous tasks
SessionUserContent_CurrentFirst(t, prev) ==
    <<Text("## Current task:\n" \o t)>>
    \o (IF prev # <<>> THEN <<Text(_format_previous_runs(prev))>> ELSE <<>>)

\* the user content TaskRunner._build_session_start_messages has before observe()
SessionUserContent(t, prev) ==
    (IF prev # <<>> THEN <<Text(_format_previous_runs(prev))>> ELSE <<>>)
    \o <<Text("## Current task:\n" \o t)>>

\* the observe callback: the n-th sample of the environment, with the
\* lifespan the callback gives its content
Observation(n) == <<[Text("observation " \o ToString(n)) EXCEPT !.lifespan = obs_lifespan]>>

Event(ev, it, pos, name, kind, arg) ==
    [ev |-> ev, it |-> it, pos |-> pos, name |-> name, kind |-> kind, arg |-> arg]

\* ------------------------------------------------------------- control tools
\* complete_work that records the feedback but forgets the status
CompleteWork_result_NoStatus(tr, params) == [tr EXCEPT !.feedback = params.feedback]

\* complete_work that drops the structured output
CompleteWork_result_DropsOutput(tr, params) ==
    [tr EXCEPT !.status = COMPLETED, !.feedback = params.feedback]

\* CompleteWorkTool.execute: the TaskResult it leaves
CompleteWork_result(tr, params) ==
    [tr EXCEPT !.status = COMPLETED, !.feedback = params.feedback,
               !.output = IF params.output # NoOutput THEN params.output ELSE @]

\* what execute adds to the description for an output: json.dumps(output,
\* indent=2) of a dict, or str(output) when json.dumps raises TypeError (an
\* instance of the schema)
OutputText(output) ==
    IF "model" \in DOMAIN output
    THEN "\nOutput data: value=" \o ToString(output.value)
    ELSE IF "value" \in DOMAIN output
    THEN "\nOutput data:\n{\n  \"value\": " \o ToString(output.value) \o "\n}"
    ELSE "\nOutput data:\n{\n  \"name\": \"" \o output.name \o "\"\n}"

\* complete_work whose description leaves the feedback out
CompleteWork_execute_NoFeedback(params) ==
    ToolResult(None, "complete_work", SUCCESS, None, "Completed", TRUE)

\* CompleteWorkTool.execute: the ToolResult it returns
CompleteWork_execute(params) ==
    ToolResult(None, "complete_work", SUCCESS, None,
               "Completed: " \o params.feedback
               \o (IF params.output # NoOutput THEN OutputText(params.output) ELSE ""),
               TRUE)

\* abort_work that records the reason but forgets the status
AbortWork_result_NoStatus(tr, params) == [tr EXCEPT !.feedback = params.reason]

\* AbortWorkTool.execute: the TaskResult it leaves
AbortWork_result(tr, params) ==
    [tr EXCEPT !.status = ABORTED, !.feedback = params.reason]

\* AbortWorkTool.execute: the ToolResult it returns
AbortWork_execute(params) ==
    ToolResult(None, "abort_work", SUCCESS, None, "Aborted: " \o params.reason, TRUE)

\* str(a / b) of the wrapped divide, for the exact quotients the model uses:
\* true division gives a float, printed with one decimal
Divide(params) == ToString(params.a \div params.b) \o ".0"

\* a @tool execute that lets the exception of the wrapped code escape to
\* execute_tool_calls, whose handler builds the error result
Decorated_execute_Propagates(name, params) ==
    IF params.b = 0
    THEN ToolResult(None, name, ERROR, "division by zero",
                    name \o " (ERROR: division by zero)", FALSE)
    ELSE ToolResult(None, name, SUCCESS, None, Divide(params), FALSE)

\* FunctionTool.execute / WrappedTool.execute of a tool made by @tool: the
\* wrapped code returns a value, described by str(result), or raises (here
\* ZeroDivisionError("division by zero")), which execute turns into an error
\* result with the default description
Decorated_execute(name, params) ==
    IF params.b = 0
    THEN ToolResult(None, name, ERROR, "division by zero", "", FALSE)
    ELSE ToolResult(None, name, SUCCESS, None, Divide(params), FALSE)

\* execute of the peek tool: a success result with lifespan = 1
Ephemeral_execute(name) ==
    [ToolResult(None, name, SUCCESS, None, "peeked", FALSE) EXCEPT !.lifespan = 1]

\* execute of a user tool, by what it does
User_execute(name, outcome) ==
    IF outcome = "error"
    THEN ToolResult(None, name, ERROR, "failed", name \o " failed", FALSE)
    ELSE ToolResult(None, name, SUCCESS, None, name \o " done", outcome = "terminal")

\* a not-found result with the message RedoRunner uses
NotFoundResult_RedoMessage(tc) ==
    ToolResult(tc.id, tc.name, ERROR, "Tool '" \o tc.name \o "' not found in tool registry",
               tc.name \o " (ERROR: Tool not found)", FALSE)

\* ------------------------------------------------------ execute_tool_calls
\* result for a call whose tool is not registered
NotFoundResult(tc) ==
    ToolResult(tc.id, tc.name, ERROR, "Tool '" \o tc.name \o "' not found in registry",
               tc.name \o " (ERROR: Tool not found)", FALSE)

\* result built by the except branch; msg = str(e)
ExceptionResult(tc, msg) ==
    ToolResult(tc.id, tc.name, ERROR, msg, tc.name \o " (ERROR: " \o msg \o ")", FALSE)

\* result for a call that is not executed
SkippedResult(tc) ==
    ToolResult(tc.id, tc.name, SKIPPED, None, tc.name \o " (SKIPPED)", FALSE)

\* skipped results for tool_calls[executed_count + 1:]
SkippedResults_OffByOne(calls, executed_count) ==
    [i \in 1 .. (Len(calls) - executed_count - 1) |->
        SkippedResult(calls[executed_count + 1 + i])]

\* skipped results for tool_calls[executed_count:]
SkippedResults(calls, executed_count) ==
    [i \in 1 .. (Len(calls) - executed_count) |-> SkippedResult(calls[executed_count + i])]

\* a batch that stops on error results only
StopsBatch_ErrorOnly(r) == r.status = ERROR

\* "if result.terminal or result.status == ToolResultStatus.ERROR: break"
StopsBatch(r) == r.terminal \/ r.status = ERROR

\* a dispatch in which a user tool's terminal result also ends the task
DispatchOne_TerminalEndsRun(reg, tc, tr, o) ==
    IF tc.name \notin DOMAIN reg
    THEN [result |-> NotFoundResult(tc), executed |-> FALSE, stop |-> TRUE,
          task_result |-> tr]
    ELSE LET tool == reg[tc.name] IN
         IF ~ParamsValid(tool, tc.arguments)
         THEN [result |-> ExceptionResult(tc, "validation error"),
               executed |-> FALSE, stop |-> TRUE, task_result |-> tr]
         ELSE IF tool.kind = "user" /\ o = "raise"
         THEN [result |-> ExceptionResult(tc, "boom"), executed |-> TRUE,
               stop |-> TRUE, task_result |-> tr]
         ELSE LET params == Params(tool, tc.arguments)
                  returned == IF tool.kind = "complete" THEN CompleteWork_execute(params)
                              ELSE IF tool.kind = "abort" THEN AbortWork_execute(params)
                              ELSE IF tool.kind = "decorated"
                              THEN Decorated_execute(tool.name, params)
                              ELSE IF tool.kind = "ephemeral"
                              THEN Ephemeral_execute(tool.name)
                              ELSE User_execute(tool.name, o)
                  r == [returned EXCEPT !.tool_call_id = tc.id]
              IN [result |-> r, executed |-> TRUE, stop |-> StopsBatch(r),
                  task_result |->
                      IF tool.kind = "complete" THEN CompleteWork_result(tr, params)
                      ELSE IF tool.kind = "abort" THEN AbortWork_result(tr, params)
                      ELSE IF r.terminal THEN [tr EXCEPT !.status = COMPLETED]
                      ELSE tr]

\* a dispatch that leaves the id the tool put on its result
DispatchOne_KeepsToolId(reg, tc, tr, o) ==
    IF tc.name \notin DOMAIN reg
    THEN [result |-> NotFoundResult(tc), executed |-> FALSE, stop |-> TRUE,
          task_result |-> tr]
    ELSE LET tool == reg[tc.name] IN
         IF ~ParamsValid(tool, tc.arguments)
         THEN [result |-> ExceptionResult(tc, "validation error"),
               executed |-> FALSE, stop |-> TRUE, task_result |-> tr]
         ELSE IF tool.kind = "user" /\ o = "raise"
         THEN [result |-> ExceptionResult(tc, "boom"), executed |-> TRUE,
               stop |-> TRUE, task_result |-> tr]
         ELSE LET params == Params(tool, tc.arguments)
                  returned == IF tool.kind = "complete" THEN CompleteWork_execute(params)
                              ELSE IF tool.kind = "abort" THEN AbortWork_execute(params)
                              ELSE IF tool.kind = "decorated"
                              THEN Decorated_execute(tool.name, params)
                              ELSE IF tool.kind = "ephemeral"
                              THEN Ephemeral_execute(tool.name)
                              ELSE User_execute(tool.name, o)
                  r == returned
              IN [result |-> r, executed |-> TRUE, stop |-> StopsBatch(r),
                  task_result |->
                      IF tool.kind = "complete" THEN CompleteWork_result(tr, params)
                      ELSE IF tool.kind = "abort" THEN AbortWork_result(tr, params)
                      ELSE tr]

\* a dispatch in which a control tool marks the Result before its arguments
\* are validated
DispatchOne_EffectBeforeValidation(reg, tc, tr, o) ==
    IF tc.name \notin DOMAIN reg
    THEN [result |-> NotFoundResult(tc), executed |-> FALSE, stop |-> TRUE,
          task_result |-> tr]
    ELSE LET tool == reg[tc.name] IN
         IF ~ParamsValid(tool, tc.arguments)
         THEN [result |-> ExceptionResult(tc, "validation error"),
               executed |-> FALSE, stop |-> TRUE,
               task_result |-> IF tool.kind = "complete" THEN [tr EXCEPT !.status = COMPLETED]
                               ELSE IF tool.kind = "abort" THEN [tr EXCEPT !.status = ABORTED]
                               ELSE tr]
         ELSE IF tool.kind = "user" /\ o = "raise"
         THEN [result |-> ExceptionResult(tc, "boom"), executed |-> TRUE,
               stop |-> TRUE, task_result |-> tr]
         ELSE LET params == Params(tool, tc.arguments)
                  returned == IF tool.kind = "complete" THEN CompleteWork_execute(params)
                              ELSE IF tool.kind = "abort" THEN AbortWork_execute(params)
                              ELSE IF tool.kind = "decorated"
                              THEN Decorated_execute(tool.name, params)
                              ELSE IF tool.kind = "ephemeral"
                              THEN Ephemeral_execute(tool.name)
                              ELSE User_execute(tool.name, o)
                  r == [returned EXCEPT !.tool_call_id = tc.id]
              IN [result |-> r, executed |-> TRUE, stop |-> StopsBatch(r),
                  task_result |->
                      IF tool.kind = "complete" THEN CompleteWork_result(tr, params)
                      ELSE IF tool.kind = "abort" THEN AbortWork_result(tr, params)
                      ELSE tr]

\* one pass of the for loop of execute_tool_calls over call tc with the
\* registry reg: the result appended, whether the tool's execute was invoked,
\* whether the loop breaks, and the TaskResult afterwards; o is what a user
\* tool's execute does when it is reached
DispatchOne(reg, tc, tr, o) ==
    IF tc.name \notin DOMAIN reg
    THEN [result |-> NotFoundResult(tc), executed |-> FALSE, stop |-> TRUE,
          task_result |-> tr]
    ELSE LET tool == reg[tc.name] IN
         IF ~ParamsValid(tool, tc.arguments)
         THEN [result |-> ExceptionResult(tc, "validation error"),
               executed |-> FALSE, stop |-> TRUE, task_result |-> tr]
         ELSE IF tool.kind = "user" /\ o = "raise"
         THEN [result |-> ExceptionResult(tc, "boom"), executed |-> TRUE,
               stop |-> TRUE, task_result |-> tr]
         ELSE LET params == Params(tool, tc.arguments)
                  returned == IF tool.kind = "complete" THEN CompleteWork_execute(params)
                              ELSE IF tool.kind = "abort" THEN AbortWork_execute(params)
                              ELSE IF tool.kind = "decorated"
                              THEN Decorated_execute(tool.name, params)
                              ELSE IF tool.kind = "ephemeral"
                              THEN Ephemeral_execute(tool.name)
                              ELSE User_execute(tool.name, o)
                  r == [returned EXCEPT !.tool_call_id = tc.id]
              IN [result |-> r, executed |-> TRUE, stop |-> StopsBatch(r),
                  task_result |->
                      IF tool.kind = "complete" THEN CompleteWork_result(tr, params)
                      ELSE IF tool.kind = "abort" THEN AbortWork_result(tr, params)
                      ELSE tr]

\* ---------------------------------------------------------------- actions
Init ==
    /\ pc = "idle"
    /\ stateful \in BOOLEAN
    /\ previous_runs = <<>>
    /\ do_outcome = NoOutcome
    /\ max_iterations = 0
    /\ task_result = NewTaskResult
    /\ tool_registry = EmptyRegistry
    /\ session_start_messages = <<>>
    /\ iteration = 0
    /\ pairs = <<>>
    /\ model_msg = NoMessage
    /\ idx = 0
    /\ results = <<>>
    /\ run = NoRun
    /\ observe_count = 0
    /\ user_content = <<>>
    /\ events = <<>>
    /\ invocation = 0
    /\ recent_window = DefaultRecentWindow
    /\ obs_lifespan = NoLifespan
    /\ output_schema = None
    /\ agent_tools = AgentTools
    /\ frames = <<>>
    /\ acting = 0
    /\ llm_inputs = <<>>
    /\ redo_pos = 0
    /\ redo_outcome = NoOutcome

\* Agent._run_task builds a TaskRunner and enters TaskRunner.run: fresh
\* TaskResult and registry, then _build_session_start_messages up to its
\* await of observe()
StartTask ==
    /\ pc = "idle"
    /\ do_outcome = NoOutcome
    /\ \E m \in MaxIterationsArgs : max_iterations' = m
    /\ task_result' = NewTaskResult
    /\ tool_registry' = _setup_tools(agent_tools, output_schema)
    /\ invocation' = invocation + 1
    /\ user_content' = SessionUserContent(TaskText(invocation + 1),
                                          IF stateful THEN previous_runs ELSE <<>>)
    /\ llm_inputs' = <<>>
    /\ pc' = "bootstrap"
    /\ UNCHANGED <<config_vars, conc_vars, redo_vars, previous_runs, do_outcome,
                   session_start_messages, iteration, pairs, model_msg, idx, results,
                   run, observe_count, events>>

\* a loop whose else branch forgets the feedback
FinishRun_NoFeedback(tr, ps, broke) ==
    IF broke
    THEN /\ task_result' = tr
         /\ run' = MakeRun(tr, ps, iteration + 1, max_iterations)
    ELSE LET aborted == [tr EXCEPT !.status = ABORTED]
         IN /\ task_result' = aborted
            /\ run' = MakeRun(aborted, ps, max_iterations, max_iterations)

\* a loop whose else branch also runs after a break
FinishRun_ElseAfterBreak(tr, ps, broke) ==
    LET aborted == [tr EXCEPT !.status = ABORTED, !.feedback = MaxIterationsFeedback]
    IN /\ task_result' = aborted
       /\ run' = MakeRun(aborted, ps, IF broke THEN iteration + 1 ELSE max_iterations,
                         max_iterations)

\* a loop whose else branch writes another feedback
FinishRun_StepLimitFeedback(tr, ps, broke) ==
    IF broke
    THEN /\ task_result' = tr
         /\ run' = MakeRun(tr, ps, iteration + 1, max_iterations)
    ELSE LET aborted == [tr EXCEPT !.status = ABORTED, !.feedback = "Reached step limit"]
         IN /\ task_result' = aborted
            /\ run' = MakeRun(aborted, ps, max_iterations, max_iterations)

\* the loop of TaskRunner.run is left: by break (status set) with
\* iterations_used = iteration + 1, or by exhaustion (for-else)
FinishRun(tr, ps, broke) ==
    IF broke
    THEN /\ task_result' = tr
         /\ run' = MakeRun(tr, ps, iteration + 1, max_iterations)
    ELSE LET aborted == [tr EXCEPT !.status = ABORTED, !.feedback = MaxIterationsFeedback]
         IN /\ task_result' = aborted
            /\ run' = MakeRun(aborted, ps, max_iterations, max_iterations)

\* a bootstrap that enters the loop although max_iterations is 0
Bootstrap_RunsOneIteration ==
    /\ pc = "bootstrap"
    /\ observe_count' = observe_count + 1
    /\ events' = Append(events, Event("observe", 0, 0, "", "", ""))
    /\ session_start_messages' =
           <<Message("system", <<Text("system prompt")>>),
             Message("user", user_content \o Observation(observe_count + 1))>>
    /\ pairs' = <<>>
    /\ iteration' = 0
    /\ IF 0 <= max_iterations
       THEN /\ pc' = "llm"
            /\ llm_inputs' = <<_prepare_messages(session_start_messages', <<>>,
                                                 recent_window)>>
            /\ UNCHANGED <<task_result, run>>
       ELSE /\ FinishRun(task_result, <<>>, FALSE)
            /\ pc' = "finished"
            /\ UNCHANGED llm_inputs
    /\ UNCHANGED <<config_vars, conc_vars, redo_vars, invocation, previous_runs, do_outcome,
                   max_iterations, tool_registry, model_msg, idx, results, user_content>>

\* the bootstrap observe() returns; the session start messages are built and
\* the loop is entered (first model request sent) or skipped
Bootstrap ==
    /\ pc = "bootstrap"
    /\ observe_count' = observe_count + 1
    /\ events' = Append(events, Event("observe", 0, 0, "", "", ""))
    /\ session_start_messages' =
           <<Message("system", <<Text("system prompt")>>),
             Message("user", user_content \o Observation(observe_count + 1))>>
    /\ pairs' = <<>>
    /\ iteration' = 0
    /\ IF 0 < max_iterations
       THEN /\ pc' = "llm"
            /\ llm_inputs' = <<_prepare_messages(session_start_messages', <<>>,
                                                 recent_window)>>
            /\ UNCHANGED <<task_result, run>>
       ELSE /\ FinishRun(task_result, <<>>, FALSE)
            /\ pc' = "finished"
            /\ UNCHANGED llm_inputs
    /\ UNCHANGED <<config_vars, conc_vars, redo_vars, invocation, previous_runs, do_outcome,
                   max_iterations, tool_registry, model_msg, idx, results, user_content>>

\* the tool calls of a batch b, with the ids the adapter gives them
CallsOf(b, it) ==
    [i \in 1 .. Len(b) |-> ToolCall("c" \o ToString(it) \o "." \o ToString(i), b[i][1], b[i][2])]

\* number of tool calls the model has issued in the pairs so far
RECURSIVE CallsIssued(_)
CallsIssued(ps) ==
    IF ps = <<>> THEN 0 ELSE Len(tool_calls_of(Head(ps)[1])) + CallsIssued(Tail(ps))

\* llm.call_tools returns the model message; execute_tool_calls starts
CallModel ==
    /\ pc = "llm"
    /\ \E b \in Batches(MaxCalls - CallsIssued(pairs)) :
          /\ model_msg' = Message("model", CallsOf(b, iteration + 1))
          /\ pc' = IF b = <<>> THEN "observe" ELSE "dispatch"
    /\ events' = Append(events, Event("llm", iteration + 1, 0, "", "", ""))
    /\ idx' = 1
    /\ results' = <<>>
    /\ UNCHANGED <<config_vars, conc_vars, redo_vars, invocation, llm_inputs, previous_runs,
                   do_outcome, max_iterations, task_result, tool_registry,
                   session_start_messages, iteration, pairs, run, observe_count,
                   user_content>>

\* one pass of the for loop of execute_tool_calls; when the loop ends (break
\* or exhaustion) the skipped results are added and the batch returns
ExecuteToolCall ==
    /\ pc = "dispatch"
    /\ LET calls == tool_calls_of(model_msg)
           tc == calls[idx]
       IN \E o \in UserOutcomes :
            LET d == DispatchOne(tool_registry, tc, task_result, o)
            IN /\ task_result' = d.task_result
               /\ events' = IF d.executed
                            THEN Append(events,
                                   Event("exec", iteration + 1, idx, tc.name,
                                         tool_registry[tc.name].kind,
                                         IF tool_registry[tc.name].kind = "complete"
                                         THEN tc.arguments.feedback
                                         ELSE IF tool_registry[tc.name].kind = "abort"
                                         THEN tc.arguments.reason
                                         ELSE IF tool_registry[tc.name].kind
                                                 \in {"decorated", "ephemeral"}
                                         THEN d.result.status ELSE o))
                            ELSE events
               /\ IF d.stop \/ idx = Len(calls)
                  THEN /\ results' = Append(results, d.result) \o SkippedResults(calls, idx)
                       /\ pc' = "observe"
                       /\ idx' = idx
                  ELSE /\ results' = Append(results, d.result)
                       /\ pc' = "dispatch"
                       /\ idx' = idx + 1
    /\ UNCHANGED <<config_vars, conc_vars, redo_vars, invocation, llm_inputs, previous_runs,
                   do_outcome, max_iterations, tool_registry, session_start_messages,
                   iteration, pairs, model_msg, run, observe_count, user_content>>

\* observe() whose content is put before the tool results
Observe_ObservationFirst ==
    /\ pc = "observe"
    /\ observe_count' = observe_count + 1
    /\ events' = Append(events, Event("observe", iteration + 1, 0, "", "", ""))
    /\ LET response_msg == Message("user", Observation(observe_count + 1) \o results)
           ps == Append(pairs, <<model_msg, response_msg>>)
       IN /\ pairs' = ps
          /\ IF task_result.status # Pending
             THEN /\ FinishRun(task_result, ps, TRUE)
                  /\ pc' = "finished"
                  /\ iteration' = iteration
                  /\ UNCHANGED llm_inputs
             ELSE IF iteration + 1 < max_iterations
             THEN /\ iteration' = iteration + 1
                  /\ pc' = "llm"
                  /\ llm_inputs' = Append(llm_inputs,
                                          _prepare_messages(session_start_messages, ps,
                                                            recent_window))
                  /\ UNCHANGED <<task_result, run>>
             ELSE /\ FinishRun(task_result, ps, FALSE)
                  /\ pc' = "finished"
                  /\ iteration' = iteration
                  /\ UNCHANGED llm_inputs
    /\ model_msg' = NoMessage
    /\ results' = <<>>
    /\ idx' = 0
    /\ UNCHANGED <<config_vars, conc_vars, redo_vars, invocation, previous_runs, do_outcome,
                   max_iterations, tool_registry, session_start_messages, user_content>>

\* an iteration end that filters the stored user messages in place
Observe_FiltersInPlace ==
    /\ pc = "observe"
    /\ observe_count' = observe_count + 1
    /\ events' = Append(events, Event("observe", iteration + 1, 0, "", "", ""))
    /\ LET response_msg == Message("user", results \o Observation(observe_count + 1))
           all == Append(pairs, <<model_msg, response_msg>>)
           ps == [k \in DOMAIN all |->
                     <<all[k][1], _filter_content_by_lifespan(all[k][2], Len(all) - k)>>]
       IN /\ pairs' = ps
          /\ IF task_result.status # Pending
             THEN /\ FinishRun(task_result, ps, TRUE)
                  /\ pc' = "finished"
                  /\ iteration' = iteration
                  /\ UNCHANGED llm_inputs
             ELSE IF iteration + 1 < max_iterations
             THEN /\ iteration' = iteration + 1
                  /\ pc' = "llm"
                  /\ llm_inputs' = Append(llm_inputs,
                                          _prepare_messages(session_start_messages, ps,
                                                            recent_window))
                  /\ UNCHANGED <<task_result, run>>
             ELSE /\ FinishRun(task_result, ps, FALSE)
                  /\ pc' = "finished"
                  /\ iteration' = iteration
                  /\ UNCHANGED llm_inputs
    /\ model_msg' = NoMessage
    /\ results' = <<>>
    /\ idx' = 0
    /\ UNCHANGED <<config_vars, conc_vars, redo_vars, invocation, previous_runs, do_outcome,
                   max_iterations, tool_registry, session_start_messages, user_content>>

\* observe() returns after the dispatch: the pair is appended and the loop
\* breaks, continues with the next model request, or is exhausted
Observe ==
    /\ pc = "observe"
    /\ observe_count' = observe_count + 1
    /\ events' = Append(events, Event("observe", iteration + 1, 0, "", "", ""))
    /\ LET response_msg == Message("user", results \o Observation(observe_count + 1))
           ps == Append(pairs, <<model_msg, response_msg>>)
       IN /\ pairs' = ps
          /\ IF task_result.status # Pending
             THEN /\ FinishRun(task_result, ps, TRUE)
                  /\ pc' = "finished"
                  /\ iteration' = iteration
                  /\ UNCHANGED llm_inputs
             ELSE IF iteration + 1 < max_iterations
             THEN /\ iteration' = iteration + 1
                  /\ pc' = "llm"
                  /\ llm_inputs' = Append(llm_inputs,
                                          _prepare_messages(session_start_messages, ps,
                                                            recent_window))
                  /\ UNCHANGED <<task_result, run>>
             ELSE /\ FinishRun(task_result, ps, FALSE)
                  /\ pc' = "finished"
                  /\ iteration' = iteration
                  /\ UNCHANGED llm_inputs
    /\ model_msg' = NoMessage
    /\ results' = <<>>
    /\ idx' = 0
    /\ UNCHANGED <<config_vars, conc_vars, redo_vars, invocation, previous_runs, do_outcome,
                   max_iterations, tool_registry, session_start_messages, user_content>>

\* TaskAbortedError(run.feedback) without the fallback
AbortMessage_NoFallback(r) == r.result.feedback

\* the message of the TaskAbortedError raised by Agent._run_task
AbortMessage(r) == IF Truthy(r.result.feedback) THEN r.result.feedback ELSE TaskAbortedDefault

\* an Agent that appends a Run only when it does not raise
AgentFinish_RaisesBeforeAppend ==
    /\ pc = "finished"
    /\ previous_runs' = IF stateful /\ run.result.status # ABORTED
                        THEN Append(previous_runs, run) ELSE previous_runs
    /\ do_outcome' = IF run.result.status = ABORTED
                     THEN [kind |-> "raise", exc |-> "TaskAbortedError",
                           msg |-> AbortMessage(run)]
                     ELSE [kind |-> "return", exc |-> None, msg |-> None]
    /\ pc' = "idle"
    /\ UNCHANGED <<config_vars, conc_vars, redo_vars, invocation, llm_inputs, max_iterations,
                   task_result, tool_registry, session_start_messages, iteration, pairs,
                   model_msg, idx, results, run, observe_count, user_content, events>>

\* an Agent._run_task that stores the Run whether stateful or not
AgentFinish_AlwaysAppends ==
    /\ pc = "finished"
    /\ previous_runs' = Append(previous_runs, run)
    /\ do_outcome' = IF run.result.status = ABORTED
                     THEN [kind |-> "raise", exc |-> "TaskAbortedError",
                           msg |-> AbortMessage(run)]
                     ELSE [kind |-> "return", exc |-> None, msg |-> None]
    /\ pc' = "idle"
    /\ UNCHANGED <<config_vars, conc_vars, redo_vars, invocation, llm_inputs, max_iterations,
                   task_result, tool_registry, session_start_messages, iteration, pairs,
                   model_msg, idx, results, run, observe_count, user_content, events>>

\* TaskRunner.run has returned to Agent._run_task: the Run is stored when
\* stateful, then the Run is returned or TaskAbortedError raised
AgentFinish ==
    /\ pc = "finished"
    /\ previous_runs' = IF stateful THEN Append(previous_runs, run) ELSE previous_runs
    /\ do_outcome' = IF run.result.status = ABORTED
                     THEN [kind |-> "raise", exc |-> "TaskAbortedError",
                           msg |-> AbortMessage(run)]
                     ELSE [kind |-> "return", exc |-> None, msg |-> None]
    /\ pc' = "idle"
    /\ UNCHANGED <<config_vars, conc_vars, redo_vars, invocation, llm_inputs, max_iterations,
                   task_result, tool_registry, session_start_messages, iteration, pairs,
                   model_msg, idx, results, run, observe_count, user_content, events>>

Next == StartTask \/ Bootstrap \/ CallModel \/ ExecuteToolCall \/ Observe \/ AgentFinish

Spec == Init /\ [][Next]_vars

\* an Agent.do whose run writes to the TaskResult of the run before it
Invoke_KeepsResult(iterations) ==
    /\ pc = "idle"
    /\ \E m \in iterations : max_iterations' = m
    /\ invocation' = invocation + 1
    /\ task_result' = task_result
    /\ tool_registry' = _setup_tools(agent_tools, output_schema)
    /\ user_content' = SessionUserContent(TaskText(invocation + 1),
                                          IF stateful THEN previous_runs ELSE <<>>)
    /\ do_outcome' = NoOutcome
    /\ run' = NoRun
    /\ session_start_messages' = <<>>
    /\ iteration' = 0
    /\ pairs' = <<>>
    /\ model_msg' = NoMessage
    /\ idx' = 0
    /\ results' = <<>>
    /\ llm_inputs' = <<>>
    /\ events' = <<>>
    /\ pc' = "bootstrap"
    /\ redo_pos' = 0
    /\ redo_outcome' = NoOutcome
    /\ UNCHANGED <<config_vars, conc_vars, previous_runs, observe_count>>

\* ------------------------------------------- several tasks on one Agent
\* Agent.do on an Agent that may have run tasks before: Agent._run_task builds
\* a new TaskRunner, whose run starts from a fresh TaskResult, registry and
\* pair list
Invoke(iterations) ==
    /\ pc = "idle"
    /\ \E m \in iterations : max_iterations' = m
    /\ invocation' = invocation + 1
    /\ task_result' = NewTaskResult
    /\ tool_registry' = _setup_tools(agent_tools, output_schema)
    /\ user_content' = SessionUserContent(TaskText(invocation + 1),
                                          IF stateful THEN previous_runs ELSE <<>>)
    /\ do_outcome' = NoOutcome
    /\ run' = NoRun
    /\ session_start_messages' = <<>>
    /\ iteration' = 0
    /\ pairs' = <<>>
    /\ model_msg' = NoMessage
    /\ idx' = 0
    /\ results' = <<>>
    /\ llm_inputs' = <<>>
    /\ events' = <<>>
    /\ pc' = "bootstrap"
    /\ redo_pos' = 0
    /\ redo_outcome' = NoOutcome
    /\ UNCHANGED <<config_vars, conc_vars, previous_runs, observe_count>>

\* Agent.do with a small max_iterations, while the Agent has tasks left
Do == invocation < MaxTasks /\ Invoke(0 .. MaxAgentIter)

\* llm.call_tools returns a message with one of the given texts and one of
\* the given batches of calls
Respond(thoughts, batches) ==
    /\ pc = "llm"
    /\ \E t \in thoughts, b \in batches :
          /\ model_msg' = Message("model", t \o CallsOf(b, iteration + 1))
          /\ pc' = IF b = <<>> THEN "observe" ELSE "dispatch"
    /\ events' = Append(events, Event("llm", iteration + 1, 0, "", "", ""))
    /\ idx' = 1
    /\ results' = <<>>
    /\ UNCHANGED <<config_vars, conc_vars, redo_vars, invocation, llm_inputs, previous_runs,
                   do_outcome, max_iterations, task_result, tool_registry,
                   session_start_messages, iteration, pairs, run, observe_count,
                   user_content>>

\* the model answers with at most one line of text and at most one call
CallModelBrief == Respond(BriefThoughts, BriefBatches)

\* the model answers with no call or one control call
CallModelControl == Respond({<<>>}, ControlBatches)

\* an exception leaves TaskRunner.run, Agent._run_task and Agent.do, none of
\* which has a handler: the locals of the run are dropped
Propagate(exc, msg) ==
    /\ do_outcome' = [kind |-> "raise", exc |-> exc, msg |-> msg]
    /\ pc' = "idle"
    /\ UNCHANGED <<config_vars, conc_vars, redo_vars, invocation, llm_inputs, previous_runs,
                   max_iterations, task_result, tool_registry, session_start_messages,
                   iteration, pairs, model_msg, idx, results, run, observe_count,
                   user_content>>

\* llm.call_tools raises
ModelRaises ==
    /\ pc = "llm"
    /\ events' = Append(events, Event("llm", iteration + 1, 0, "", "", "raise"))
    /\ Propagate("LLMError", "model failed")

\* an observe() that raises and whose partial run is stored all the same
ObserveRaises_StoresPartialRun ==
    /\ pc \in {"bootstrap", "observe"}
    /\ events' = Append(events, Event("observe", IF pc = "bootstrap" THEN 0 ELSE iteration + 1,
                                      0, "", "", "raise"))
    /\ do_outcome' = [kind |-> "raise", exc |-> "ObserveError", msg |-> "observe failed"]
    /\ pc' = "idle"
    /\ previous_runs' = Append(previous_runs,
                               MakeRun(task_result, pairs, iteration, max_iterations))
    /\ UNCHANGED <<config_vars, conc_vars, redo_vars, invocation, llm_inputs,
                   max_iterations, task_result, tool_registry, session_start_messages,
                   iteration, pairs, model_msg, idx, results, run, observe_count,
                   user_content>>

\* observe() raises, in the bootstrap or after a dispatch
ObserveRaises ==
    /\ pc \in {"bootstrap", "observe"}
    /\ events' = Append(events, Event("observe", IF pc = "bootstrap" THEN 0 ELSE iteration + 1,
                                      0, "", "", "raise"))
    /\ Propagate("ObserveError", "observe failed")

\* the task is cancelled while it waits at an await (observe, call_tools or
\* a tool's execute): CancelledError is not an Exception, so the registry's
\* handler does not turn it into a result
Cancelled ==
    /\ pc \in {"bootstrap", "llm", "dispatch", "observe"}
    /\ UNCHANGED events
    /\ Propagate("CancelledError", "")

NextAgent ==
    \/ Do \/ Bootstrap \/ CallModelControl \/ ExecuteToolCall \/ Observe \/ AgentFinish
    \/ ModelRaises \/ ObserveRaises \/ Cancelled

SpecAgent == Init /\ [][NextAgent]_vars

\* ------------------------------------------- a task with a small window
\* an Agent built with memory=MemoryConfig(recent_window=w) and an observe
\* callback that gives its content a lifespan
InitMemory ==
    /\ pc = "idle"
    /\ stateful = TRUE
    /\ recent_window \in 1 .. MaxWindow
    /\ obs_lifespan \in Lifespans
    /\ output_schema = None
    /\ agent_tools = AgentTools
    /\ frames = <<>>
    /\ acting = 0
    /\ previous_runs = <<>>
    /\ do_outcome = NoOutcome
    /\ max_iterations = 0
    /\ task_result = NewTaskResult
    /\ tool_registry = EmptyRegistry
    /\ session_start_messages = <<>>
    /\ iteration = 0
    /\ pairs = <<>>
    /\ model_msg = NoMessage
    /\ idx = 0
    /\ results = <<>>
    /\ run = NoRun
    /\ observe_count = 0
    /\ user_content = <<>>
    /\ events = <<>>
    /\ invocation = 0
    /\ llm_inputs = <<>>
    /\ redo_pos = 0
    /\ redo_outcome = NoOutcome

\* the one Agent.do of that Agent, with max_iterations = MemIter
DoLong == invocation = 0 /\ Invoke({MemIter})

NextMemory ==
    DoLong \/ Bootstrap \/ CallModelBrief \/ ExecuteToolCall \/ Observe \/ AgentFinish

SpecMemory == InitMemory /\ [][NextMemory]_vars

\* ----------------------------------------------------------- Agent.redo
\* RedoRunner.__init__: self._tool_map = {tool.name: tool for tool in tools}
_tool_map(tools) == registerAll(EmptyRegistry, tools)

\* tool calls taken from the newest message backwards
RECURSIVE _extract_tool_calls_NewestFirst(_)
_extract_tool_calls_NewestFirst(messages) ==
    IF messages = <<>> THEN <<>>
    ELSE _extract_tool_calls_NewestFirst(Tail(messages))
         \o (IF Head(messages).role = "model" THEN tool_calls_of(Head(messages)) ELSE <<>>)

\* an extraction that leaves out the calls recorded as skipped (in a batch the
\* skipped results are the last ones)
RECURSIVE _extract_tool_calls_ExecutedOnly(_)
_extract_tool_calls_ExecutedOnly(messages) ==
    IF Len(messages) < 2 THEN <<>>
    ELSE LET rs == SelectSeq(messages[2].content,
                             LAMBDA c : c.type = "ToolResult" /\ c.status # SKIPPED)
         IN SubSeq(tool_calls_of(messages[1]), 1, Len(rs))
            \o _extract_tool_calls_ExecutedOnly(SubSeq(messages, 3, Len(messages)))

\* RedoRunner._extract_tool_calls over run.messages
RECURSIVE _extract_tool_calls(_)
_extract_tool_calls(messages) ==
    IF messages = <<>> THEN <<>>
    ELSE (IF Head(messages).role = "model" THEN tool_calls_of(Head(messages)) ELSE <<>>)
         \o _extract_tool_calls(Tail(messages))

\* a replay step that does not look at the status of the result
_execute_tool_call_IgnoresError(tool_map, tc, o) ==
    IF tc.name \notin DOMAIN tool_map
    THEN [executed |-> FALSE, raised |-> TRUE, exc |-> "ValueError",
          msg |-> "Tool '" \o tc.name \o "' not found in tool registry"]
    ELSE IF ~ParamsValid(tool_map[tc.name], tc.arguments)
    THEN [executed |-> FALSE, raised |-> TRUE, exc |-> "ValidationError",
          msg |-> "validation error"]
    ELSE IF tool_map[tc.name].kind = "user" /\ o = "raise"
    THEN [executed |-> TRUE, raised |-> TRUE, exc |-> "Exception", msg |-> "boom"]
    ELSE [executed |-> TRUE, raised |-> FALSE, exc |-> None, msg |-> None]

\* RedoRunner._execute_tool_call: whether the tool's execute was invoked and
\* what is raised; o is what the tool's execute does
_execute_tool_call(tool_map, tc, o) ==
    IF tc.name \notin DOMAIN tool_map
    THEN [executed |-> FALSE, raised |-> TRUE, exc |-> "ValueError",
          msg |-> "Tool '" \o tc.name \o "' not found in tool registry"]
    ELSE IF ~ParamsValid(tool_map[tc.name], tc.arguments)
    THEN [executed |-> FALSE, raised |-> TRUE, exc |-> "ValidationError",
          msg |-> "validation error"]
    ELSE IF tool_map[tc.name].kind = "user" /\ o = "raise"
    THEN [executed |-> TRUE, raised |-> TRUE, exc |-> "Exception", msg |-> "boom"]
    ELSE LET result == IF tool_map[tc.name].kind = "decorated"
                       THEN Decorated_execute(tc.name, tc.arguments)
                       ELSE IF tool_map[tc.name].kind = "ephemeral"
                       THEN Ephemeral_execute(tc.name)
                       ELSE User_execute(tc.name, o)
         IN IF result.status = ERROR
            THEN [executed |-> TRUE, raised |-> TRUE, exc |-> "RuntimeError",
                  msg |-> "Tool '" \o tc.name \o "' failed: " \o result.error]
            ELSE [executed |-> TRUE, raised |-> FALSE, exc |-> None, msg |-> None]

\* Agent.redo(run) on the Run of the task that ended: RedoRunner.replay up to
\* its first await; a Run without tool calls returns at once
Redo ==
    /\ pc = "idle"
    /\ run # NoRun
    /\ redo_outcome = NoOutcome
    /\ IF _extract_tool_calls(run.messages) = <<>>
       THEN /\ redo_outcome' = [kind |-> "return", exc |-> None, msg |-> None]
            /\ pc' = "idle"
            /\ redo_pos' = 0
       ELSE /\ redo_outcome' = NoOutcome
            /\ pc' = "redo"
            /\ redo_pos' = 1
    /\ UNCHANGED <<config_vars, conc_vars, invocation, llm_inputs, previous_runs, do_outcome,
                   max_iterations, task_result, tool_registry, session_start_messages,
                   iteration, pairs, model_msg, idx, results, run, observe_count,
                   user_content, events>>

\* one pass of the for loop of RedoRunner.replay
ReplayStep ==
    /\ pc = "redo"
    /\ LET tool_calls == _extract_tool_calls(run.messages)
           tc == tool_calls[redo_pos]
       IN \E o \in UserOutcomes :
            LET d == _execute_tool_call(_tool_map(agent_tools), tc, o)
            IN /\ events' = Append(events,
                                   Event("redo", 0, redo_pos, tc.name,
                                         IF d.executed THEN "user" ELSE "",
                                         IF d.executed THEN o ELSE ""))
               /\ IF d.raised
                  THEN /\ redo_outcome' = [kind |-> "raise", exc |-> d.exc, msg |-> d.msg]
                       /\ pc' = "idle"
                       /\ redo_pos' = redo_pos
                  ELSE IF redo_pos = Len(tool_calls)
                  THEN /\ redo_outcome' = [kind |-> "return", exc |-> None, msg |-> None]
                       /\ pc' = "idle"
                       /\ redo_pos' = redo_pos
                  ELSE /\ redo_outcome' = NoOutcome
                       /\ pc' = "redo"
                       /\ redo_pos' = redo_pos + 1
    /\ UNCHANGED <<config_vars, conc_vars, invocation, llm_inputs, previous_runs, do_outcome,
                   max_iterations, task_result, tool_registry, session_start_messages,
                   iteration, pairs, model_msg, idx, results, run, observe_count,
                   user_content>>

NextRedo ==
    \/ StartTask \/ Bootstrap \/ CallModel \/ ExecuteToolCall \/ Observe \/ AgentFinish
    \/ Redo \/ ReplayStep

\* a stateful Agent before its task
InitRedo == Init /\ stateful = TRUE

SpecRedo == InitRedo /\ [][NextRedo]_vars

\* ------------------------------------------- do, redo and reset in turn
\* a reset that forgets only the newest run
reset_DropsNewest(runs) == SubSeq(runs, 1, Len(runs) - 1)

\* Agent.reset: self._previous_runs.clear()
reset(runs) == <<>>

\* Agent.reset is called between two tasks
Reset ==
    /\ pc = "idle"
    /\ previous_runs' = reset(previous_runs)
    /\ UNCHANGED <<config_vars, conc_vars, redo_vars, pc, invocation, llm_inputs, do_outcome,
                   max_iterations, task_result, tool_registry, session_start_messages,
                   iteration, pairs, model_msg, idx, results, run, observe_count,
                   user_content, events>>

\* the caller interleaves do, redo of the last Run and reset on one Agent
NextCalls ==
    \/ Do \/ Bootstrap \/ CallModelControl \/ ExecuteToolCall \/ Observe \/ AgentFinish
    \/ Redo \/ ReplayStep \/ Reset

SpecCalls == Init /\ [][NextCalls]_vars

\* ----------------------------- a task with a @tool tool and an output schema
\* arguments of the calls of these sessions: divide with and without a zero
\* denominator; complete_work with feedback alone, with an output that fits
\* OutputData, with one that does not, and without feedback; abort_work
ToolKinds ==
    {<<"divide", [a |-> 10, b |-> 2]>>, <<"divide", [a |-> 10, b |-> 0]>>,
     <<"complete_work", [feedback |-> "ok"]>>,
     <<"complete_work", [feedback |-> "Extracted value", output |-> [value |-> 42]]>>,
     <<"complete_work", [feedback |-> "ok", output |-> [name |-> "x"]]>>,
     <<"complete_work", [output |-> [value |-> 42]]>>,
     <<"abort_work", [reason |-> "blocked"]>>}

\* batches of at most n such calls
RECURSIVE ToolBatches(_)
ToolBatches(n) ==
    IF n = 0 THEN {<<>>}
    ELSE LET B == ToolBatches(n - 1) IN
         B \cup {Append(b, k) : b \in {x \in B : Len(x) = n - 1}, k \in ToolKinds}

\* an Agent with the tools add and divide, whose caller passes no
\* output_schema or OutputData
InitTools ==
    /\ pc = "idle"
    /\ stateful = TRUE
    /\ recent_window = DefaultRecentWindow
    /\ obs_lifespan = NoLifespan
    /\ output_schema \in {None, OutputData}
    /\ agent_tools = AgentTools
    /\ frames = <<>>
    /\ acting = 0
    /\ previous_runs = <<>>
    /\ do_outcome = NoOutcome
    /\ max_iterations = 0
    /\ task_result = NewTaskResult
    /\ tool_registry = EmptyRegistry
    /\ session_start_messages = <<>>
    /\ iteration = 0
    /\ pairs = <<>>
    /\ model_msg = NoMessage
    /\ idx = 0
    /\ results = <<>>
    /\ run = NoRun
    /\ observe_count = 0
    /\ user_content = <<>>
    /\ events = <<>>
    /\ invocation = 0
    /\ llm_inputs = <<>>
    /\ redo_pos = 0
    /\ redo_outcome = NoOutcome

\* the one Agent.do(task, max_iterations, output_schema) of that Agent
DoWithSchema == invocation = 0 /\ Invoke(1 .. MaxIter)

\* the model answers with a batch of these calls, MaxCalls calls a run at most
CallModelTools == Respond({<<>>}, ToolBatches(MaxCalls - CallsIssued(pairs)))

NextTools ==
    DoWithSchema \/ Bootstrap \/ CallModelTools \/ ExecuteToolCall \/ Observe \/ AgentFinish

SpecTools == InitTools /\ [][NextTools]_vars

\* ------------------------------------------- a task whose model reasons
\* the text content of a model message: none, one line, one padded line
LogThoughts == {<<>>, <<Text("think")>>, <<Text(" plan ")>>}

\* the calls of these sessions: the user tool, an unknown tool, complete_work
LogKinds ==
    {<<"add", [a |-> 1, b |-> 2]>>, <<"nope", [a |-> 1]>>,
     <<"complete_work", [feedback |-> "ok"]>>}

\* batches of at most n such calls
RECURSIVE LogBatches(_)
LogBatches(n) ==
    IF n = 0 THEN {<<>>}
    ELSE LET B == LogBatches(n - 1) IN
         B \cup {Append(b, k) : b \in {x \in B : Len(x) = n - 1}, k \in LogKinds}

\* the one Agent.do of the session
DoLogged == invocation = 0 /\ Invoke(1 .. MaxIter)

\* the model answers with text and a batch, MaxCalls calls a run at most
CallModelLogged == Respond(LogThoughts, LogBatches(MaxCalls - CallsIssued(pairs)))

NextLog ==
    DoLogged \/ Bootstrap \/ CallModelLogged \/ ExecuteToolCall \/ Observe \/ AgentFinish

SpecLog == Init /\ [][NextLog]_vars

\* ------------------------------- a task long enough to evict compacted pairs
\* a model message of these sessions: no call, peek, or add
EvictBatches == {<<>>, <<<<"peek", << >>>>>>, <<<<"add", [a |-> 1, b |-> 2]>>>>}

\* an Agent with recent_window up to MaxWindow whose observe callback and
\* peek tool give their content a lifespan
InitEvict ==
    /\ pc = "idle"
    /\ stateful = TRUE
    /\ recent_window \in 1 .. MaxWindow
    /\ obs_lifespan \in Lifespans
    /\ output_schema = None
    /\ agent_tools = AgentTools
    /\ frames = <<>>
    /\ acting = 0
    /\ previous_runs = <<>>
    /\ do_outcome = NoOutcome
    /\ max_iterations = 0
    /\ task_result = NewTaskResult
    /\ tool_registry = EmptyRegistry
    /\ session_start_messages = <<>>
    /\ iteration = 0
    /\ pairs = <<>>
    /\ model_msg = NoMessage
    /\ idx = 0
    /\ results = <<>>
    /\ run = NoRun
    /\ observe_count = 0
    /\ user_content = <<>>
    /\ events = <<>>
    /\ invocation = 0
    /\ llm_inputs = <<>>
    /\ redo_pos = 0
    /\ redo_outcome = NoOutcome

\* the one Agent.do of that Agent, with max_iterations = EvictIter
DoEvict == invocation = 0 /\ Invoke({EvictIter})

\* the model answers without text, with no call or one call
CallModelEvict == Respond({<<>>}, EvictBatches)

NextEvict ==
    DoEvict \/ Bootstrap \/ CallModelEvict \/ ExecuteToolCall \/ Observe \/ AgentFinish

SpecEvict == InitEvict /\ [][NextEvict]_vars

\* ------------------------------------------------------------ properties
\* indices of the events of one kind
EventsOf(ev) == {i \in DOMAIN events : events[i].ev = ev}

\* the ToolResult items of a user message
ToolResultsOf(msg) == SelectSeq(msg.content, LAMBDA c : c.type = "ToolResult")

\* TaskRunner.run has returned a Run
Returned == run # NoRun

\* the final user message of the returned Run
FinalUserMessage == run.messages[Len(run.messages)]

Max0(n) == IF n < 0 THEN 0 ELSE n

\* C1: when complete_work is executed in iteration k, the only event after it
\* is iteration k's observe(), after which the run has returned with status
\* completed, the feedback argument as feedback and steps_used = k.
C1_CompleteEndsRun ==
    \A i \in EventsOf("exec") :
        events[i].kind = "complete" =>
            /\ \A j \in DOMAIN events :
                  j > i => /\ j = i + 1
                           /\ events[j].ev = "observe"
                           /\ events[j].it = events[i].it
            /\ (Len(events) > i) = Returned
            /\ Returned => /\ run.result.status = COMPLETED
                           /\ run.result.feedback = events[i].arg
                           /\ run.steps_used = events[i].it

\* complete_work executed in the second iteration and Agent.do returned
C1_Witness ==
    /\ do_outcome.kind = "return"
    /\ run.steps_used = 2
    /\ \E i \in EventsOf("exec") : events[i].kind = "complete" /\ events[i].it = 2

\* distance to the end of the task invocation, in steps
Variant ==
    LET U == MaxCalls + 2
        left == max_iterations - iteration
    IN CASE pc = "idle" -> IF do_outcome = NoOutcome THEN (MaxIter + 1) * U + 3 ELSE 0
         [] pc = "bootstrap" -> Max0(max_iterations) * U + 2
         [] pc = "llm" -> left * U + 1
         [] pc = "dispatch" -> left * U + 1 - idx
         [] pc = "observe" -> left * U - MaxCalls
         [] pc = "finished" -> 1

\* no control tool was executed in the run
NoControlFired == \A i \in EventsOf("exec") : events[i].kind \notin {"complete", "abort"}

\* what C2 says of the Run when no control tool fired
BoundResult ==
    (Returned /\ NoControlFired) =>
        /\ run.result.status = ABORTED
        /\ run.result.feedback = MaxIterationsFeedback
        /\ run.steps_used = max_iterations

DoEnded == do_outcome # NoOutcome

\* C3 as stated: Agent.do returns only a completed Run and raises
\* TaskAbortedError carrying the run's feedback for every aborted Run.
C3_Original ==
    DoEnded =>
        /\ (do_outcome.kind = "return") = (run.result.status = COMPLETED)
        /\ run.result.status = ABORTED =>
              /\ do_outcome.kind = "raise"
              /\ do_outcome.exc = "TaskAbortedError"
              /\ do_outcome.msg = run.result.feedback

\* C3 (amended): Agent.do returns only a completed Run; for an aborted Run it
\* raises TaskAbortedError carrying the run's feedback, or "Task aborted" when
\* that feedback is the empty string.
C3_DoRaisesOnAbort ==
    DoEnded =>
        /\ (do_outcome.kind = "return") = (run.result.status = COMPLETED)
        /\ run.result.status = ABORTED =>
              /\ do_outcome.kind = "raise"
              /\ do_outcome.exc = "TaskAbortedError"
              /\ run.result.feedback # "" => do_outcome.msg = run.result.feedback
              /\ run.result.feedback = "" => do_outcome.msg = "Task aborted"

\* abort_work(reason="blocked") in the first iteration: TaskAbortedError("blocked")
C3_Witness ==
    /\ DoEnded
    /\ run.result.status = ABORTED
    /\ run.result.feedback = "blocked"
    /\ run.steps_used = 1
    /\ do_outcome.msg = "blocked"

\* a result that is terminal or has status error
TerminalOrError(r) == r.terminal \/ r.status = ERROR

\* the results of the batch that execute_tool_calls has just returned
BatchReturned == pc = "observe"

\* the call at position j of the current batch had its tool's execute invoked
ExecutedAt(j) ==
    \E i \in EventsOf("exec") : events[i].it = iteration + 1 /\ events[i].pos = j

\* C4: after the first terminal or error result of a batch every later call
\* gets a skipped result and its tool's execute is not invoked.
C4_SkippedAfterStop ==
    BatchReturned =>
        \A i \in DOMAIN results : \A j \in DOMAIN results :
            (i < j /\ TerminalOrError(results[i])) =>
                (results[j].status = SKIPPED /\ ~ExecutedAt(j))

\* a batch whose first call stopped it and whose second call was skipped
C4_Witness ==
    /\ BatchReturned
    /\ Len(results) = 2
    /\ TerminalOrError(results[1])
    /\ results[2].status = SKIPPED

\* C5: a batch returns one result per call, in call order, and the executed
\* calls are executed in call order, each at most once.
C5_OneResultPerCall ==
    LET calls == tool_calls_of(model_msg)
        ex == {i \in EventsOf("exec") : events[i].it = iteration + 1}
    IN /\ pc = "dispatch" => Len(results) = idx - 1
       /\ BatchReturned => Len(results) = Len(calls)
       /\ pc \in {"dispatch", "observe"} =>
             /\ \A k \in DOMAIN results :
                   /\ results[k].tool_call_id = calls[k].id
                   /\ results[k].name = calls[k].name
             /\ \A a \in ex : \A b \in ex : a < b => events[a].pos < events[b].pos
             /\ \A a \in ex : events[a].pos \in DOMAIN results

\* a batch of two calls, both executed, has returned its two results
C5_Witness ==
    /\ BatchReturned
    /\ Len(results) = 2
    /\ ExecutedAt(1) /\ ExecutedAt(2)

\* C6: a completed Run has in its final user message a success result of
\* complete_work with the Run's feedback; a Run aborted with another feedback
\* than "Reached maximum iterations" has there a success result of abort_work.
C6_FinalMessageHasControlResult ==
    Returned =>
        /\ run.result.status = COMPLETED =>
              \E k \in DOMAIN ToolResultsOf(FinalUserMessage) :
                  LET r == ToolResultsOf(FinalUserMessage)[k]
                  IN /\ r.name = "complete_work"
                     /\ r.status = SUCCESS
                     /\ r.description = "Completed: " \o run.result.feedback
        /\ (run.result.status = ABORTED /\ run.result.feedback # MaxIterationsFeedback) =>
              \E k \in DOMAIN ToolResultsOf(FinalUserMessage) :
                  LET r == ToolResultsOf(FinalUserMessage)[k]
                  IN r.name = "abort_work" /\ r.status = SUCCESS

\* a Run completed in its second iteration, after a successful user tool
C6_Witness ==
    /\ Returned
    /\ run.result.status = COMPLETED
    /\ Len(run.messages) = 4
    /\ Len(ToolResultsOf(FinalUserMessage)) = 2

\* the last event is the execute of a control tool of the given kind
LastExec(kind) ==
    /\ events # <<>>
    /\ events[Len(events)].ev = "exec"
    /\ events[Len(events)].kind = kind

\* C7: within a run the status leaves pending only to completed (complete_work
\* executed) or to aborted (abort_work executed, or the loop exhausted); once
\* set it never changes, and a returned Run is never pending.
C7_StatusMonotone ==
    /\ [](Returned => run.result.status \in {COMPLETED, ABORTED})
    /\ [][pc' # "bootstrap" =>
            /\ task_result.status # Pending => task_result'.status = task_result.status
            /\ (task_result.status = Pending /\ task_result'.status = COMPLETED)
                  => LastExec("complete")'
            /\ (task_result.status = Pending /\ task_result'.status = ABORTED)
                  => (LastExec("abort")' \/ (pc' = "finished" /\ NoControlFired'))]_vars

\* a run aborted by abort_work in its second iteration has returned
C7_Witness ==
    /\ Returned
    /\ run.result.status = ABORTED
    /\ run.result.feedback = "blocked"
    /\ run.steps_used = 2

\* C8: the messages of a returned Run alternate model, user, starting with a
\* model message; none is a system message or the bootstrap user message.
C8_MessagesAlternate ==
    Returned =>
        /\ Len(run.messages) % 2 = 0
        /\ \A k \in DOMAIN run.messages :
              /\ run.messages[k].role = (IF k % 2 = 1 THEN "model" ELSE "user")
              /\ run.messages[k].role # "system"
              /\ run.messages[k] # session_start_messages[2]

\* a returned Run of two pairs
C8_Witness == Returned /\ Len(run.messages) = 4

\* C9 as stated: steps_used <= max_steps, len(messages) = 2 * steps_used, and
\* steps_used is the number of model calls made.
C9_StepsUsedCountsPairs ==
    Returned =>
        /\ run.steps_used <= run.max_steps
        /\ Len(run.messages) = 2 * run.steps_used
        /\ run.steps_used = Cardinality(EventsOf("llm"))

\* a result that stops its batch occurs in a user message before the final one
StopResultBeforeFinal ==
    \E k \in 1 .. (Len(pairs) - 1) :
        \E n \in DOMAIN ToolResultsOf(pairs[k][2]) :
            TerminalOrError(ToolResultsOf(pairs[k][2])[n])

ControlNames == {"complete_work", "abort_work"}

\* the result of a control tool that was executed
ControlResult(r) == r.name \in ControlNames /\ r.status = SUCCESS /\ r.terminal

\* the Run was aborted by the bound: the loop ran out with no control tool
BoundAborted == Returned /\ NoControlFired

UserToolStopped ==
    /\ pc = "observe"
    /\ \E n \in DOMAIN results :
          results[n].name \notin ControlNames /\ TerminalOrError(results[n])

C13_ResultIdsAnswerCalls ==
    Returned =>
        \A m \in DOMAIN run.messages :
            run.messages[m].role = "user" =>
                LET rs == ToolResultsOf(run.messages[m])
                IN \A n \in DOMAIN rs :
                      /\ m > 1
                      /\ rs[n].tool_call_id = tool_calls_of(run.messages[m - 1])[n].id
                      /\ rs[n].tool_call_id # None =>
                            \E e \in 1 .. (m - 1) :
                                /\ run.messages[e].role = "model"
                                /\ \E c \in DOMAIN tool_calls_of(run.messages[e]) :
                                      tool_calls_of(run.messages[e])[c].id
                                          = rs[n].tool_call_id

\* a returned Run whose second batch had an executed and a skipped call
C13_Witness ==
    /\ Returned
    /\ Len(run.messages) = 4
    /\ Len(ToolResultsOf(run.messages[4])) = 2
    /\ ToolResultsOf(run.messages[4])[1].tool_call_id = "c2.1"
    /\ ToolResultsOf(run.messages[4])[1].status = SUCCESS
    /\ ToolResultsOf(run.messages[4])[2].tool_call_id = "c2.2"
    /\ ToolResultsOf(run.messages[4])[2].status = SKIPPED

\* number of the invocation that produced a stored Run
InvocationOf(r) == CHOOSE n \in 1 .. MaxTasks : r.task_description = "task " \o ToString(n)

\* a task invocation is between its start and its end
Running == pc \in {"bootstrap", "llm", "dispatch", "observe", "finished"}

\* C14: on a stateful Agent the step that ends a finished run (completed or
\* aborted) appends that Run to previous_runs, for an aborted one in the same
\* step that raises TaskAborted; nothing else changes previous_runs, so it
\* holds the finished runs in invocation order, and the bootstrap of the next
\* task lists every one of them, aborted ones included.
C14_FinishedRunsAppended ==
    /\ [][(pc = "finished" /\ pc' = "idle" /\ stateful) =>
             /\ previous_runs' = Append(previous_runs, run)
             /\ run.result.status \in {COMPLETED, ABORTED}
             /\ run.result.status = ABORTED => do_outcome'.exc = "TaskAbortedError"]_vars
    /\ [][previous_runs' # previous_runs => (pc = "finished" /\ pc' = "idle")]_vars
    /\ [](stateful =>
             \A j, k \in DOMAIN previous_runs :
                 j < k => InvocationOf(previous_runs[j]) < InvocationOf(previous_runs[k]))
    /\ []((stateful /\ Running /\ previous_runs # <<>>) =>
             /\ user_content[1].type = "Text"
             /\ user_content[1].text = _format_previous_runs(previous_runs)
             /\ (Len(previous_runs) = 1 /\ previous_runs[1].result.feedback = "blocked") =>
                   user_content[1].text =
                       "## Previous tasks:\n\n### Task 1\nTask: "
                       \o previous_runs[1].task_description
                       \o "\nStatus: Aborted\nFeedback: blocked\n")

\* the second task of a stateful Agent starts after the first was aborted by
\* abort_work("blocked") and Agent.do raised
C14_Witness ==
    /\ stateful
    /\ pc = "bootstrap"
    /\ invocation = 2
    /\ Len(previous_runs) = 1
    /\ previous_runs[1].result.status = ABORTED
    /\ previous_runs[1].result.feedback = "blocked"
    /\ previous_runs[1].task_description = "task 1"

\* the exceptions that end a task before its run finishes
Failures == {"LLMError", "ObserveError", "CancelledError"}

\* Agent.do ended by a failure of the model, observe() or a cancellation
DoFailed == DoEnded /\ do_outcome.kind = "raise" /\ do_outcome.exc \in Failures

\* C15: a failure of the model adapter, of observe() or a cancellation before
\* the run finishes ends Agent.do with that exception; no Run is returned, the
\* pairs hold the completed iterations only, and previous_runs is unchanged.
C15_FailurePropagates ==
    /\ [][(Running /\ pc # "finished" /\ pc' = "idle") =>
             /\ do_outcome = NoOutcome
             /\ do_outcome'.kind = "raise"
             /\ do_outcome'.exc \in Failures
             /\ previous_runs' = previous_runs
             /\ pairs' = pairs
             /\ run' = NoRun]_vars
    /\ [](DoFailed =>
             /\ run = NoRun
             /\ Len(pairs) = iteration
             /\ \A k \in DOMAIN previous_runs :
                   previous_runs[k].task_description # "task " \o ToString(invocation))

\* observe() raised after complete_work had been executed in the second task
\* of a stateful Agent: the first task's Run is the only one stored
C15_Witness ==
    /\ DoFailed
    /\ do_outcome.exc = "ObserveError"
    /\ task_result.status = COMPLETED
    /\ stateful
    /\ invocation = 2
    /\ Len(previous_runs) = 1
    /\ results # <<>>

\* the tool calls recorded in the model messages of a Run, oldest first
RECURSIVE RecordedCalls(_)
RecordedCalls(messages) ==
    IF messages = <<>> THEN <<>>
    ELSE (IF Head(messages).role = "model"
          THEN SelectSeq(Head(messages).content, LAMBDA c : c.type = "ToolCall")
          ELSE <<>>) \o RecordedCalls(Tail(messages))

\* the ToolResults recorded in the user messages of a Run, oldest first
RECURSIVE RecordedResults(_)
RecordedResults(messages) ==
    IF messages = <<>> THEN <<>>
    ELSE (IF Head(messages).role = "user" THEN ToolResultsOf(Head(messages)) ELSE <<>>)
         \o RecordedResults(Tail(messages))

\* the replay events, oldest first
Replayed == SelectSeq(events, LAMBDA e : e.ev = "redo")

\* Agent.redo has ended
RedoEnded == redo_outcome # NoOutcome

\* status of the result a user tool's execute returned
StatusOf(o) == IF o \in {"success", "terminal"} THEN SUCCESS
               ELSE IF o = "error" THEN ERROR ELSE None

\* every execution of a user tool, recorded or replayed, did the same
Deterministic ==
    \A i, j \in DOMAIN events :
        (events[i].ev \in {"exec", "redo"} /\ events[i].kind = "user"
         /\ events[j].ev \in {"exec", "redo"} /\ events[j].kind = "user")
        => events[i].arg = events[j].arg

\* C16 on the runs where it asks least: with deterministic tools, replaying a
\* Run of Agent.do in which every recorded call succeeded returns without
\* raising and gives the recorded sequence of result statuses.
C16_ReplayReproducesRun ==
    (/\ RedoEnded
     /\ Deterministic
     /\ \A k \in DOMAIN RecordedResults(run.messages) :
           RecordedResults(run.messages)[k].status = SUCCESS)
    => /\ redo_outcome.kind = "return"
       /\ Len(Replayed) = Len(RecordedResults(run.messages))
       /\ \A k \in DOMAIN Replayed :
             StatusOf(Replayed[k].arg) = RecordedResults(run.messages)[k].status

\* C17: replay takes the recorded calls in message order and, within a
\* message, in call order, one call per step and none twice; when it returns,
\* every recorded call was executed exactly once and succeeded; it makes no
\* model call and no observe() and leaves the Agent's runs alone; a Run
\* without tool calls returns at once with nothing executed.
C17_ReplayInRecordedOrder ==
    /\ [](Returned =>
             /\ Len(Replayed) <= Len(RecordedCalls(run.messages))
             /\ \A k \in DOMAIN Replayed :
                   /\ Replayed[k].pos = k
                   /\ Replayed[k].name = RecordedCalls(run.messages)[k].name
             /\ (RedoEnded /\ redo_outcome.kind = "return") =>
                   /\ Len(Replayed) = Len(RecordedCalls(run.messages))
                   /\ \A k \in DOMAIN Replayed :
                         Replayed[k].kind = "user" /\ StatusOf(Replayed[k].arg) = SUCCESS)
    /\ [][(pc = "redo" \/ pc' = "redo" \/ redo_outcome' # redo_outcome) =>
             /\ observe_count' = observe_count
             /\ run' = run
             /\ previous_runs' = previous_runs
             /\ llm_inputs' = llm_inputs
             /\ \/ events' = events
                \/ /\ Len(events') = Len(events) + 1
                   /\ SubSeq(events', 1, Len(events)) = events
                   /\ events'[Len(events')].ev = "redo"]_vars
    /\ [][(redo_outcome = NoOutcome /\ pc = "idle" /\ Returned
           /\ RecordedCalls(run.messages) = <<>>
           /\ (pc' = "redo" \/ redo_outcome' # NoOutcome)) =>
             /\ redo_outcome'.kind = "return"
             /\ pc' = "idle"
             /\ events' = events]_vars

\* a Run of two iterations with one call and then two calls, all of which
\* succeeded, was replayed to the end
C17_Witness ==
    /\ RedoEnded
    /\ redo_outcome.kind = "return"
    /\ Len(run.messages) = 4
    /\ Len(RecordedCalls(<<run.messages[1]>>)) = 1
    /\ Len(RecordedCalls(<<run.messages[3]>>)) = 2
    /\ Len(Replayed) = 3

\* names of the tools Agent.redo can execute
ReplayableNames == {"add"}

\* C18: when replay raises, the call at its position is the only one that
\* failed and the last one touched: every earlier call was executed once and
\* succeeded, no later call is executed, and nothing runs afterwards (no
\* retry); a call whose tool is not among the Agent's tools raises
\* ValueError("Tool '<n>' not found in tool registry") without executing
\* anything, a call whose tool returns status error raises
\* "Tool '<n>' failed: <error>".
C18_ReplayStopsAtFirstFailure ==
    /\ []((RedoEnded /\ redo_outcome.kind = "raise") =>
             LET p == Len(Replayed)
             IN /\ p >= 1
                /\ p = redo_pos
                /\ \A k \in 1 .. (p - 1) :
                      Replayed[k].kind = "user" /\ StatusOf(Replayed[k].arg) = SUCCESS
                /\ Replayed[p].name = RecordedCalls(run.messages)[p].name
                /\ Replayed[p].name \notin ReplayableNames =>
                      /\ Replayed[p].kind = ""
                      /\ redo_outcome.exc = "ValueError"
                      /\ redo_outcome.msg =
                             "Tool '" \o Replayed[p].name \o "' not found in tool registry"
                /\ Replayed[p].name \in ReplayableNames => StatusOf(Replayed[p].arg) # SUCCESS
                /\ StatusOf(Replayed[p].arg) = ERROR =>
                      /\ redo_outcome.exc = "RuntimeError"
                      /\ redo_outcome.msg = "Tool '" \o Replayed[p].name \o "' failed: failed")
    /\ [](pc = "redo" =>
             \A k \in DOMAIN Replayed :
                 Replayed[k].kind = "user" /\ StatusOf(Replayed[k].arg) = SUCCESS)
    /\ [][RedoEnded => UNCHANGED <<events, redo_pos, redo_outcome, pc>>]_vars

\* replay raised RuntimeError at the second of three recorded calls, after the
\* first had succeeded
C18_Witness ==
    /\ RedoEnded
    /\ redo_outcome.exc = "RuntimeError"
    /\ redo_outcome.msg = "Tool 'add' failed: failed"
    /\ Len(Replayed) = 2
    /\ Len(RecordedCalls(run.messages)) = 3

\* the content items of a user message that its lifespans keep at a distance
\* from the newest pair
KeptAt(msg, distance) ==
    SelectSeq(msg.content, LAMBDA c : c.lifespan = NoLifespan \/ distance < c.lifespan)

\* a content item occurs in some message of a message list
OccursIn(c, messages) ==
    \E m \in DOMAIN messages : \E k \in DOMAIN messages[m].content : messages[m].content[k] = c

\* C19: in the messages of the n-th model call, the user message of each
\* recent pair (distance d from the newest pair, d < recent_window) holds
\* exactly the items of the stored message that have no lifespan or have
\* d < lifespan, in order; so an item with lifespan 1 is in the messages of the
\* model call right after it was produced and in those of no later call.
C19_LifespanFilter ==
    \A n \in DOMAIN llm_inputs :
        \A i \in 1 .. (n - 1) :
            LET d == n - 1 - i
                sent == llm_inputs[n]
            IN /\ d < recent_window =>
                     /\ sent[Len(sent) - 2 * d].role = "user"
                     /\ sent[Len(sent) - 2 * d].content = KeptAt(pairs[i][2], d)
                     /\ sent[Len(sent) - 2 * d - 1] = pairs[i][1]
               /\ \A k \in DOMAIN pairs[i][2].content :
                     pairs[i][2].content[k].lifespan = 1 =>
                         OccursIn(pairs[i][2].content[k], sent) = (d = 0)

\* with recent_window = 2 and lifespan 1 the third model call gets the first
\* pair without its observation and the second pair with it
C19_Witness ==
    /\ recent_window = 2
    /\ obs_lifespan = 1
    /\ Len(llm_inputs) = 3
    /\ Len(pairs[1][2].content) = 2
    /\ Len(llm_inputs[3][4].content) = 1
    /\ llm_inputs[3][4].content[1].type = "ToolResult"
    /\ llm_inputs[3][6] = pairs[2][2]
    /\ llm_inputs[2][4] = pairs[1][2]

\* the summary message _prepare_messages puts after the bootstrap
SummaryMessage(old_pairs) ==
    [role |-> "user",
     content |-> <<[type |-> "Text", lifespan |-> NoLifespan,
                    text |-> "Previous actions in this session:\n"
                             \o _build_summary(old_pairs)]>>]

EventOrder ==
    \A i \in DOMAIN events :
        LET e == events[i] IN
        IF i = 1 THEN e.ev = "observe" /\ e.it = 0
        ELSE LET p == events[i - 1] IN
             /\ e.ev = "llm" => (p.ev = "observe" /\ p.it = e.it - 1)
             /\ e.ev = "exec" => (p.ev \in {"llm", "exec"} /\ p.it = e.it)
             /\ e.ev = "observe" => (p.ev \in {"llm", "exec"} /\ p.it = e.it)

\* observe() is sampled only at the bootstrap or when execute_tool_calls has
\* returned a result for every call of the batch
ObserveAfterDispatch ==
    [][observe_count' # observe_count =>
        /\ observe_count' = observe_count + 1
        /\ pc \in {"bootstrap", "observe"}
        /\ pc = "observe" => Len(results) = Len(tool_calls_of(model_msg))]_vars

\* C26 as stated: in every iteration the events are model call, the batch's
\* tool executions, observe(), then the next model call; observe() is never
\* sampled before the dispatch has finished; it is sampled once before the
\* first model call, and a run that returns has made steps_used + 1 observe()
\* calls.
C26_ObserveOrderAndCount ==
    /\ [](EventOrder)
    /\ ObserveAfterDispatch
    /\ [](Returned => observe_count = run.steps_used + 1)

\* the order of C26 alone, and the count for the bounds the loop can run with
C26_OrderHolds ==
    /\ [](EventOrder)
    /\ ObserveAfterDispatch
    /\ [](Returned /\ max_iterations >= 0 => observe_count = run.steps_used + 1)

\* the run C26 fails on: max_iterations = -1 returns with steps_used = -1
\* after the one bootstrap observe()
C26_NegativeBound ==
    Returned /\ max_iterations < 0 /\ observe_count = 1 /\ run.steps_used = 0 - 1

\* the statuses of the tool results of a user message, in order
StatusesOf(msg) == [i \in DOMAIN ToolResultsOf(msg) |-> ToolResultsOf(msg)[i].status]

\* the content of the k-th user message: one result per call of the k-th
\* model message in call order, then the observation sampled after the
\* dispatch (the (k+1)-th sample of the run)
ResultsThenObservation(k) ==
    LET calls == tool_calls_of(pairs[k][1])
        c == pairs[k][2].content
        obs == Observation(k + 1)
    IN /\ Len(c) = Len(calls) + Len(obs)
       /\ \A i \in 1 .. Len(calls) :
             c[i].type = "ToolResult" /\ c[i].tool_call_id = calls[i].id
       /\ SubSeq(c, Len(calls) + 1, Len(c)) = obs

\* C27: the user message of each iteration is the batch's tool results in
\* call order followed by the observation sampled after the dispatch, and
\* (no lifespan set) the next model call receives exactly that message as
\* its last message.
C27_ResultsThenObservation ==
    /\ \A k \in DOMAIN pairs : ResultsThenObservation(k)
    /\ \A n \in DOMAIN llm_inputs :
          n >= 2 => llm_inputs[n][Len(llm_inputs[n])] = pairs[n - 1][2]

\* a second model call whose last message is [success, error, skipped]
\* followed by the observation
C27_Witness ==
    /\ Len(llm_inputs) = 2
    /\ LET last == llm_inputs[2][Len(llm_inputs[2])]
       IN /\ StatusesOf(last) = <<SUCCESS, ERROR, SKIPPED>>
          /\ Len(last.content) = 4
          /\ last.content[4] = Observation(2)[1]

\* call i of iteration k was reached by the loop of execute_tool_calls
ReachedCall(k, i) ==
    \A j \in 1 .. (i - 1) :
        LET r == ToolResultsOf(pairs[k][2])[j] IN r.status = SUCCESS /\ ~r.terminal

\* the execute of the tool of call i of iteration k raised
ExecuteRaised(k, i) ==
    \E e \in EventsOf("exec") :
        /\ events[e].it = k /\ events[e].pos = i
        /\ events[e].kind = "user" /\ events[e].arg = "raise"

\* call i of iteration k names no registered tool, fails Params validation,
\* or its tool's execute raised
Unserved(k, i) ==
    /\ i \in DOMAIN tool_calls_of(pairs[k][1])
    /\ ReachedCall(k, i)
    /\ LET tc == tool_calls_of(pairs[k][1])[i] IN
       \/ tc.name \notin DOMAIN tool_registry
       \/ ~ParamsValid(tool_registry[tc.name], tc.arguments)
       \/ ExecuteRaised(k, i)

\* C28: execute_tool_calls turns an unknown tool name, arguments that fail
\* validation and an exception of a tool's execute into one error result for
\* that call (unknown tool: "Tool '<n>' not found in registry"); the batch
\* stops there (the calls after it are skipped) with one result per call, and
\* the runner goes on: the run has a later iteration unless that was the last
\* one max_iterations allows, and then it ends as any exhausted run.
C28_DispatchErrorsAreResults ==
    \A k \in DOMAIN pairs :
        LET calls == tool_calls_of(pairs[k][1])
            rs == ToolResultsOf(pairs[k][2])
        IN /\ Len(rs) = Len(calls)
           /\ \A i \in DOMAIN calls :
                 Unserved(k, i)
                 => /\ rs[i].status = ERROR
                    /\ rs[i].tool_call_id = calls[i].id
                    /\ rs[i].name = calls[i].name
                    /\ calls[i].name \notin DOMAIN tool_registry
                       => rs[i].error = "Tool '" \o calls[i].name
                                        \o "' not found in registry"
                    /\ \A j \in (i + 1) .. Len(calls) : rs[j].status = SKIPPED
                    /\ Returned
                       => \/ Len(pairs) > k
                          \/ /\ k = max_iterations
                             /\ run.result.status = ABORTED
                             /\ run.result.feedback = MaxIterationsFeedback

\* a run whose first batch called an unknown tool before another call, went
\* on, and completed in its second iteration
C28_Witness ==
    /\ Returned /\ Len(pairs) = 2 /\ run.result.status = COMPLETED
    /\ Unserved(1, 1) /\ tool_calls_of(pairs[1][1])[1].name = "nope"
    /\ StatusesOf(pairs[1][2]) = <<ERROR, SKIPPED>>

\* the same for arguments that fail validation and for an execute that raises
C28_OtherCases ==
    /\ Returned /\ Len(pairs) = 2
    /\ Unserved(1, 1) /\ tool_calls_of(pairs[1][1])[1].name = "complete_work"
    /\ Unserved(2, 1) /\ ExecuteRaised(2, 1)

\* the messages of the pairs first .. last of the run, as stored
PairsInFull(first, last) ==
    [j \in 1 .. 2 * (last - first + 1) |-> pairs[first + (j - 1) \div 2][2 - (j % 2)]]

\* the same with each user message reduced to the items whose lifespan has
\* not expired at its distance from the newest pair
PairsKept(first, last) ==
    [j \in 1 .. 2 * (last - first + 1) |->
        LET i == first + (j - 1) \div 2 IN
        IF j % 2 = 1 THEN pairs[i][1]
        ELSE [pairs[i][2] EXCEPT !.content = KeptAt(pairs[i][2], last - i)]]

\* C25 as stated: with more prior pairs than recent_window the messages are
\* the bootstrap, exactly one summary message of the pairs older than the
\* window and the last recent_window pairs; otherwise the bootstrap and all
\* pairs in full.
C25_Original ==
    \A n \in DOMAIN llm_inputs :
        LET prior == n - 1 IN
        llm_inputs[n] =
            IF prior > recent_window
            THEN session_start_messages
                 \o <<SummaryMessage(SubSeq(pairs, 1, prior - recent_window))>>
                 \o PairsInFull(prior - recent_window + 1, prior)
            ELSE session_start_messages \o PairsInFull(1, prior)

\* C25 (amended): the summary message is there unless the summary text of the
\* older pairs is empty, and the pairs of the window are there in order, each
\* user message without the items whose lifespan has expired; with at most
\* recent_window prior pairs there is no summary message and all pairs are
\* there, again without expired items.
C25_CompactedHistory ==
    \A n \in DOMAIN llm_inputs :
        LET prior == n - 1
            old == SubSeq(pairs, 1, prior - recent_window)
        IN llm_inputs[n] =
            IF prior > recent_window
            THEN session_start_messages
                 \o (IF _build_summary(old) # "" THEN <<SummaryMessage(old)>> ELSE <<>>)
                 \o PairsKept(prior - recent_window + 1, prior)
            ELSE session_start_messages \o PairsKept(1, prior)

\* a third model call with recent_window = 1 that got the summary of the
\* first pair and the second pair, after a second call that got the first
\* pair as messages
C25_Witness ==
    /\ recent_window = 1
    /\ Len(llm_inputs) = 3
    /\ llm_inputs[3] = session_start_messages
                       \o <<SummaryMessage(SubSeq(pairs, 1, 1)), pairs[2][1], pairs[2][2]>>
    /\ llm_inputs[2] = session_start_messages \o <<pairs[1][1], pairs[1][2]>>

\* a model call whose older pairs have an empty summary gets no summary message
C25_EmptySummary ==
    /\ recent_window = 1
    /\ Len(llm_inputs) = 3
    /\ Len(llm_inputs[3]) = 4

\* a pair inside the window that is sent without its expired observation
C25_ExpiredInWindow ==
    /\ recent_window = 2
    /\ Len(llm_inputs) = 3
    /\ llm_inputs[3][4] # pairs[1][2]

\* C30: every model call of a run receives the same two bootstrap messages
\* (system, then initial user) as its first two messages: they are the
\* messages built before the loop, whose user message ends with the one
\* bootstrap observation (the first sample), whatever its lifespan.
C30_BootstrapKept ==
    \A n \in DOMAIN llm_inputs :
        LET sent == llm_inputs[n] IN
        /\ Len(sent) >= 2
        /\ sent[1] = llm_inputs[1][1] /\ sent[2] = llm_inputs[1][2]
        /\ <<sent[1], sent[2]>> = session_start_messages
        /\ sent[1].role = "system" /\ sent[2].role = "user"
        /\ sent[2].content = user_content \o Observation(1)

\* a third model call that still starts with the bootstrap, whose observation
\* has lifespan 1, while the first pair's observation has expired
C30_Witness ==
    /\ obs_lifespan = 1
    /\ recent_window = 2
    /\ Len(llm_inputs) = 3
    /\ llm_inputs[3][2].content[Len(llm_inputs[3][2].content)].lifespan = 1
    /\ llm_inputs[3][4].content # pairs[1][2].content

\* the bootstrap of the running task holds no previous runs: its user
\* content is the current task alone, followed in the bootstrap user message
\* by the bootstrap observation
NoPreviousRunsInBootstrap ==
    /\ user_content = <<Text("## Current task:\n" \o task)>>
    /\ session_start_messages # <<>>
       => \E n \in 1 .. observe_count :
             session_start_messages[2].content = user_content \o Observation(n)

\* C21: Agent.reset empties previous_runs and changes nothing else, so that a
\* second reset leaves the state of the first; a task started while
\* previous_runs is empty, as the first task after a reset is, has no
\* previous runs in its bootstrap.
C21_ResetEmptiesHistory ==
    /\ [][(pc = "idle" /\ pc' = "idle" /\ redo_outcome' = redo_outcome)
          => /\ previous_runs' = <<>>
             /\ previous_runs = <<>> => UNCHANGED vars
             /\ UNCHANGED <<config_vars, conc_vars, redo_vars, pc, invocation, llm_inputs, do_outcome,
                            max_iterations, task_result, tool_registry,
                            session_start_messages, iteration, pairs, model_msg, idx,
                            results, run, observe_count, user_content, events>>]_vars
    /\ []((Running /\ previous_runs = <<>>) => NoPreviousRunsInBootstrap)

\* the second task of a stateful Agent, started after a reset that followed
\* the first task, has sent its first model request without previous runs
C21_Witness ==
    /\ stateful
    /\ invocation = 2
    /\ pc = "llm"
    /\ previous_runs = <<>>
    /\ session_start_messages[2].content[1] = Text("## Current task:\ntask 2")
    /\ Len(session_start_messages[2].content) = 2

\* C22: on an Agent with stateful = false previous_runs is empty in every
\* state reached by do, redo and reset calls and every task is run with no
\* previous runs in its bootstrap; previous_runs holds a Run only when
\* stateful = true, and then the next task's bootstrap lists it.
C22_StatelessKeepsNoHistory ==
    /\ ~stateful => previous_runs = <<>> /\ (Running => NoPreviousRunsInBootstrap)
    /\ previous_runs # <<>> => stateful
    /\ (stateful /\ Running /\ previous_runs # <<>>)
       => /\ Len(user_content) = 2
          /\ user_content[1] = Text(_format_previous_runs(previous_runs))

\* the second task of a stateless Agent has sent its first model request
C22_Witness ==
    /\ ~stateful
    /\ invocation = 2
    /\ pc = "llm"

\* the second task of a stateful Agent lists the first in its bootstrap
C22_StatefulRetains ==
    stateful /\ invocation = 2 /\ pc = "llm" /\ Len(previous_runs) = 1
    /\ Len(session_start_messages[2].content) = 3

\* call i of iteration k is a complete_work call that reached execute: the
\* loop of execute_tool_calls got to it and its arguments passed validation
CompleteExecuted(k, i) ==
    /\ i \in DOMAIN tool_calls_of(pairs[k][1])
    /\ ReachedCall(k, i)
    /\ tool_calls_of(pairs[k][1])[i].name = "complete_work"
    /\ ParamsValid(tool_registry["complete_work"], tool_calls_of(pairs[k][1])[i].arguments)

\* C23: when the model calls complete_work with arguments that validate, the
\* run completes in that iteration with the call's feedback; with an
\* output_schema and an output, Run.output is the instance of the schema
\* validated from that output (value 42 for {"value": 42}); without an output
\* the run completes as well and Run.output stays unset.
C23_ValidatedOutput ==
    Returned =>
        \A k \in DOMAIN pairs : \A i \in DOMAIN tool_calls_of(pairs[k][1]) :
            CompleteExecuted(k, i) =>
                LET args == tool_calls_of(pairs[k][1])[i].arguments IN
                /\ k = Len(pairs)
                /\ run.result.status = COMPLETED
                /\ run.result.feedback = args.feedback
                /\ ("output" \in DOMAIN args /\ output_schema = OutputData)
                   => run.result.output = [model |-> OutputData, value |-> args.output.value]
                /\ "output" \notin DOMAIN args => run.result.output = NoOutput

\* the run of the test: OutputData as schema, complete_work with feedback
\* "Extracted value" and output {"value": 42}
C23_Witness ==
    /\ Returned
    /\ output_schema = OutputData
    /\ run.result.status = COMPLETED
    /\ run.result.feedback = "Extracted value"
    /\ run.result.output = [model |-> OutputData, value |-> 42]

\* a run completed by complete_work without output, under a schema
C23_NoOutput ==
    /\ Returned
    /\ output_schema = OutputData
    /\ run.result.status = COMPLETED
    /\ run.result.output = NoOutput

\* call i of iteration k is a divide call that reached execute
DivideExecuted(k, i) ==
    /\ i \in DOMAIN tool_calls_of(pairs[k][1])
    /\ ReachedCall(k, i)
    /\ tool_calls_of(pairs[k][1])[i].name = "divide"

\* C24: the execute of a tool built with @tool returns a result in both
\* cases: status success with description = str(result) on normal return
\* ("5.0" for divide(10, 2)), and for an exception of the wrapped code status
\* error with error = the exception's message, the default description and
\* terminal false, which is not the result execute_tool_calls builds for an
\* execute that raised; the error result stops the batch like any other
\* error (the calls after it are skipped, the run goes on).
C24_DecoratedToolNeverRaises ==
    \A k \in DOMAIN pairs : \A i \in DOMAIN tool_calls_of(pairs[k][1]) :
        DivideExecuted(k, i) =>
            LET calls == tool_calls_of(pairs[k][1])
                rs == ToolResultsOf(pairs[k][2])
                r == rs[i]
            IN /\ r.name = "divide" /\ r.tool_call_id = calls[i].id /\ ~r.terminal
               /\ calls[i].arguments.b # 0
                  => /\ r.status = SUCCESS /\ r.error = None
                     /\ calls[i].arguments = [a |-> 10, b |-> 2] => r.description = "5.0"
               /\ calls[i].arguments.b = 0
                  => /\ r.status = ERROR
                     /\ r.error = "division by zero"
                     /\ r.description = ""
                     /\ \A j \in (i + 1) .. Len(calls) : rs[j].status = SKIPPED
                     /\ Returned => (Len(pairs) > k \/ BoundAborted)

\* a batch [divide(10, 2), divide(10, 0), complete_work]: success "5.0", the
\* error result, the skipped call; the run went on with a second iteration
C24_Witness ==
    /\ Returned /\ Len(pairs) = 2
    /\ DivideExecuted(1, 2)
    /\ StatusesOf(pairs[1][2]) = <<SUCCESS, ERROR, SKIPPED>>
    /\ ToolResultsOf(pairs[1][2])[1].description = "5.0"
    /\ ToolResultsOf(pairs[1][2])[2].error = "division by zero"

\* the call execute_tool_calls is at
CurrentCall == tool_calls_of(model_msg)[idx]

\* the control results of a batch that came from an execute
ControlExecutedIn(rs) == \E i \in DOMAIN rs : ControlResult(rs[i])

\* a control call of iteration k that did not reach execute: it was skipped
\* or its arguments failed validation
ControlNotExecuted(k, i) ==
    /\ i \in DOMAIN tool_calls_of(pairs[k][1])
    /\ tool_calls_of(pairs[k][1])[i].name \in ControlNames
    /\ ToolResultsOf(pairs[k][2])[i].status \in {SKIPPED, ERROR}

\* C29: while the iteration loop runs, the Result changes only in the step
\* that executes a complete_work or abort_work call whose arguments are
\* valid; a batch whose control calls were all skipped or failed validation
\* leaves the Result pending, and the loop goes on to the next iteration
\* (or, after the last one, to the abort of the exhausted loop).
C29_ResultChangesOnlyInControlExecute ==
    /\ [][(task_result' # task_result /\ pc \in {"llm", "dispatch", "observe"})
          => \/ /\ pc = "dispatch"
                /\ CurrentCall.name \in ControlNames
                /\ ParamsValid(tool_registry[CurrentCall.name], CurrentCall.arguments)
                /\ task_result.status = Pending
                /\ task_result'.status =
                       IF CurrentCall.name = "complete_work" THEN COMPLETED ELSE ABORTED
             \/ /\ pc = "observe"
                /\ pc' = "finished"
                /\ task_result.status = Pending
                /\ Len(pairs') = max_iterations
                /\ task_result'.status = ABORTED
                /\ task_result'.feedback = MaxIterationsFeedback]_vars
    /\ []((pc \in {"dispatch", "observe"} /\ ~ControlExecutedIn(results))
          => task_result = NewTaskResult)
    /\ [](\A k \in DOMAIN pairs :
             ~ControlExecutedIn(ToolResultsOf(pairs[k][2]))
             => /\ k < Len(pairs) \/ pc \in {"llm", "dispatch", "observe"}
                   \/ (Returned /\ k = max_iterations /\ BoundAborted))

\* the first batch held complete_work without feedback and a skipped
\* abort_work, the second complete_work with an output that does not fit the
\* schema; the Result stayed pending and the loop ran out
C29_Witness ==
    /\ Returned /\ Len(pairs) = 2 /\ output_schema = OutputData
    /\ ControlNotExecuted(1, 1) /\ ControlNotExecuted(1, 2)
    /\ StatusesOf(pairs[1][2]) = <<ERROR, SKIPPED>>
    /\ tool_calls_of(pairs[1][1])[1].arguments = [output |-> [value |-> 42]]
    /\ tool_calls_of(pairs[1][1])[2].name = "abort_work"
    /\ ControlNotExecuted(2, 1)
    /\ tool_calls_of(pairs[2][1])[1].arguments = [feedback |-> "ok", output |-> [name |-> "x"]]
    /\ BoundAborted

\* C37: TaskRunner.run with max_iterations = 0 makes no model call and
\* executes no tool, samples observe() exactly once, and returns a Run with
\* status aborted, feedback "Reached maximum iterations", steps_used = 0,
\* empty messages and an empty action log.
C37_ZeroIterations ==
    max_iterations = 0 =>
        /\ EventsOf("llm") = {} /\ EventsOf("exec") = {}
        /\ llm_inputs = <<>>
        /\ pc \notin {"llm", "dispatch", "observe"}
        /\ Returned =>
              /\ observe_count = 1
              /\ Cardinality(EventsOf("observe")) = 1
              /\ run.result.status = ABORTED
              /\ run.result.feedback = "Reached maximum iterations"
              /\ run.result.output = NoOutput
              /\ run.steps_used = 0
              /\ run.max_steps = 0
              /\ run.messages = <<>>
              /\ run.summary = ""

\* Agent.do(task, max_iterations=0) has raised TaskAbortedError for that Run
C37_Witness ==
    /\ invocation = 1 /\ max_iterations = 0 /\ Returned
    /\ run.result.status = ABORTED /\ run.messages = <<>>
    /\ do_outcome.kind = "raise"

\* the entries the claim gives pair k: the model text, if any, as a top-level
\* entry, then one indented entry per ToolResult of the user message, in
\* order, with the failure note on error results
LogEntries(k) ==
    LET texts == SelectSeq(pairs[k][1].content, LAMBDA c : c.type = "Text" /\ c.text # "")
        rs == ToolResultsOf(pairs[k][2])
    IN (IF texts # <<>> THEN <<"- " \o Strip(texts[1].text)>> ELSE <<>>)
       \o [i \in DOMAIN rs |->
              "  - " \o rs[i].description
              \o (IF rs[i].status = ERROR THEN " [FAILED: " \o rs[i].error \o "]" ELSE "")]

\* the entries of pairs k .. Len(pairs)
RECURSIVE LogFrom(_)
LogFrom(k) == IF k > Len(pairs) THEN <<>> ELSE LogEntries(k) \o LogFrom(k + 1)

\* the model's only message is the call complete_work(feedback = "ok")
ImmediateComplete ==
    /\ Len(pairs) = 1
    /\ Len(pairs[1][1].content) = 1
    /\ tool_calls_of(pairs[1][1]) # <<>>
    /\ tool_calls_of(pairs[1][1])[1].name = "complete_work"
    /\ tool_calls_of(pairs[1][1])[1].arguments = [feedback |-> "ok"]

C34_Immediate == Returned /\ ImmediateComplete /\ run.summary = "  - Completed: ok"

\* C31: lifespan filtering and compaction never modify the stored pairs: a
\* pair, once appended, stays as it is for the rest of the run; every stored
\* user message holds all its items as produced (the results, then the
\* observation), also the items the model no longer sees, so the Run's
\* messages are the pairs in full; and each model call filters the stored
\* content anew at the pair's distance.
C31_StoredPairsUntouched ==
    /\ [][pc # "idle" =>
            /\ Len(pairs') >= Len(pairs)
            /\ \A k \in DOMAIN pairs : pairs'[k] = pairs[k]]_vars
    /\ [](\A k \in DOMAIN pairs : ResultsThenObservation(k))
    /\ [](Returned => run.messages = PairsInFull(1, Len(pairs)))
    /\ [](\A n \in DOMAIN llm_inputs : \A i \in 1 .. (n - 1) :
             n - 1 - i < recent_window =>
                 llm_inputs[n][Len(llm_inputs[n]) - 2 * (n - 1 - i)].content
                     = KeptAt(pairs[i][2], n - 1 - i))

\* the Run of a task with lifespan 1 and recent_window 2: the third model
\* call did not get the first observation, the Run's messages hold it
C31_Witness ==
    /\ Returned /\ obs_lifespan = 1 /\ recent_window = 2 /\ Len(llm_inputs) = 3
    /\ Len(ToolResultsOf(pairs[1][2])) = 1
    /\ Len(llm_inputs[3][4].content) = 1
    /\ Len(run.messages[2].content) = 2
    /\ run.messages[2].content[2] = Observation(2)[1]

\* the entries of pairs first .. last
RECURSIVE LogRange(_, _)
LogRange(first, last) ==
    IF first > last THEN <<>> ELSE LogEntries(first) \o LogRange(first + 1, last)

\* the items of the k-th stored user message that are not tool results
ObservationItems(k) == SelectSeq(pairs[k][2].content, LAMBDA c : c.type # "ToolResult")

\* C39: compaction ignores lifespan: in a model call made with more prior
\* pairs than recent_window, the summary message lists every ToolResult of
\* every evicted pair, whatever its lifespan, also one that filtering had
\* removed while the pair was in the window; and no item of an evicted
\* pair's observation occurs in that call's messages.
C39_CompactionIgnoresLifespan ==
    \A n \in DOMAIN llm_inputs :
        LET last == n - 1 - recent_window IN
        last >= 1 =>
            /\ LogRange(1, last) # <<>>
               => /\ llm_inputs[n][3].role = "user"
                  /\ llm_inputs[n][3].content =
                         <<Text("Previous actions in this session:\n"
                                \o Join(LogRange(1, last)))>>
            /\ \A i \in 1 .. last : \A k \in DOMAIN ObservationItems(i) :
                  ~OccursIn(ObservationItems(i)[k], llm_inputs[n])

\* recent_window = 2: the first pair's peek result (lifespan 1) was not in
\* the third model call, and is listed in the summary of the fourth
C39_Witness ==
    /\ recent_window = 2
    /\ Len(llm_inputs) = 4
    /\ Len(ToolResultsOf(pairs[1][2])) = 1
    /\ ToolResultsOf(pairs[1][2])[1].lifespan = 1
    /\ ToolResultsOf(llm_inputs[3][4]) = <<>>
    /\ llm_inputs[4][3].content[1].text = "Previous actions in this session:\n  - peeked"

\* the block the claim gives the i-th prior run: task, capitalised status,
\* feedback if any
PreviousTaskBlock(runs, i) ==
    "### Task " \o ToString(i) \o "\n"
    \o "Task: " \o runs[i].task_description \o "\n"
    \o "Status: " \o (IF runs[i].result.status = COMPLETED THEN "Completed" ELSE "Aborted")
    \o "\n"
    \o (IF runs[i].result.feedback \notin {None, ""}
        THEN "Feedback: " \o runs[i].result.feedback \o "\n" ELSE "")

\* the "## Previous tasks:" text for the runs from the i-th on
RECURSIVE PreviousTaskBlocks(_, _)
PreviousTaskBlocks(runs, i) ==
    IF i > Len(runs) THEN ""
    ELSE "\n" \o PreviousTaskBlock(runs, i) \o PreviousTaskBlocks(runs, i + 1)

\* C33: the bootstrap user message of a task is, in order, a "## Previous
\* tasks:" text listing every prior run in order with its task, capitalised
\* status and feedback if any (there iff previous_runs is non-empty), the
\* "## Current task:" text, and the contents of the initial observe(); the
\* task being started is not among the listed ones.
C33_BootstrapUserMessage ==
    (Running /\ session_start_messages # <<>>) =>
        LET prev == IF stateful THEN previous_runs ELSE <<>>
            msg == session_start_messages[2]
        IN /\ msg.role = "user"
           /\ \E n \in 1 .. observe_count :
                 msg.content =
                     (IF prev # <<>>
                      THEN <<Text("## Previous tasks:\n" \o PreviousTaskBlocks(prev, 1))>>
                      ELSE <<>>)
                     \o <<Text("## Current task:\n" \o task)>>
                     \o Observation(n)
           /\ \A i \in DOMAIN prev : prev[i].task_description # task

\* the second task of a stateful Agent whose first task called
\* abort_work(reason = ""): the aborted run is listed without feedback line
C33_Witness ==
    /\ stateful /\ invocation = 2 /\ pc = "llm"
    /\ Len(session_start_messages[2].content) = 3
    /\ session_start_messages[2].content[1].text =
           "## Previous tasks:\n\n### Task 1\nTask: task 1\nStatus: Aborted\n"
    /\ session_start_messages[2].content[2].text = "## Current task:\ntask 2"

ReplayStopped == RedoEnded /\ redo_outcome.kind = "raise"

\* what C35 shares with its amended form: the k-th replayed call is the k-th
\* recorded call whatever its recorded result (success, error or skipped), a
\* replay that returns has gone through all recorded calls, and a replayed
\* result that is terminal does not end the replay
ReplayFollowsCalls ==
    Returned =>
        /\ Len(Replayed) <= Len(RecordedCalls(run.messages))
        /\ \A k \in DOMAIN Replayed :
              /\ Replayed[k].name = RecordedCalls(run.messages)[k].name
              /\ (Replayed[k].arg = "terminal" /\ RedoEnded
                  /\ k < Len(RecordedCalls(run.messages)))
                 => Len(Replayed) > k
        /\ (RedoEnded /\ ~ReplayStopped)
           => Len(Replayed) = Len(RecordedCalls(run.messages))

\* C35 as stated: replay decides from the recorded calls only, goes on after
\* a terminal result, and stops only on a missing tool, a validation error
\* or an error result.
C35_Original ==
    /\ ReplayFollowsCalls
    /\ ReplayStopped =>
          LET last == Replayed[Len(Replayed)] IN
          \/ last.name \notin ReplayableNames
          \/ last.kind = ""
          \/ StatusOf(last.arg) = ERROR

\* C35 (amended): replay decides from the recorded calls only, goes on after
\* a terminal result, and stops only on a missing tool, a validation error,
\* an error result or an exception raised by the tool's execute.
C35_ReplayDecidesFromCalls ==
    /\ ReplayFollowsCalls
    /\ ReplayStopped =>
          LET last == Replayed[Len(Replayed)] IN
          \/ last.name \notin ReplayableNames
          \/ last.kind = ""
          \/ StatusOf(last.arg) = ERROR
          \/ last.arg = "raise"

\* a batch recorded as [error, skipped, skipped] is replayed call by call:
\* success, a terminal result, success, and the replay returns
C35_Witness ==
    /\ RedoEnded /\ redo_outcome.kind = "return"
    /\ Len(RecordedResults(run.messages)) = 3
    /\ RecordedResults(run.messages)[1].status = ERROR
    /\ RecordedResults(run.messages)[2].status = SKIPPED
    /\ Len(Replayed) = 3
    /\ Replayed[2].arg = "terminal"

\* a replay ended by an exception of the tool's execute
C35_ExecuteRaised ==
    /\ ReplayStopped
    /\ Replayed[Len(Replayed)].arg = "raise"
    /\ redo_outcome.msg = "boom"

\* ------------------------------------------------------- ToolRegistry alone
\* A ToolRegistry driven by any sequence of register and clear of at most
\* MaxOps operations; `events` keeps the operations in order.
MaxOps == 4

\* the tools offered to register: two names have two different tools each
RegistryTools ==
    {AddTool, UserCompleteTool, [CompleteWorkTool EXCEPT !.schema = OutputData],
     UserAbortTool, AbortWorkTool}

\* the names looked up; "divide" is never registered
RegistryNames == {"add", "divide", "complete_work", "abort_work"}

InitRegistry ==
    /\ pc = "registry"
    /\ stateful = FALSE
    /\ previous_runs = <<>>
    /\ do_outcome = NoOutcome
    /\ max_iterations = 0
    /\ task_result = NewTaskResult
    /\ tool_registry = EmptyRegistry
    /\ session_start_messages = <<>>
    /\ iteration = 0
    /\ pairs = <<>>
    /\ model_msg = NoMessage
    /\ idx = 0
    /\ results = <<>>
    /\ run = NoRun
    /\ observe_count = 0
    /\ user_content = <<>>
    /\ events = <<>>
    /\ invocation = 0
    /\ recent_window = DefaultRecentWindow
    /\ obs_lifespan = NoLifespan
    /\ output_schema = None
    /\ agent_tools = AgentTools
    /\ frames = <<>>
    /\ acting = 0
    /\ llm_inputs = <<>>
    /\ redo_pos = 0
    /\ redo_outcome = NoOutcome

Register ==
    /\ pc = "registry"
    /\ Len(events) < MaxOps
    /\ \E tool \in RegistryTools :
          /\ tool_registry' = register(tool_registry, tool)
          /\ events' = Append(events, Event("register", 0, Len(events) + 1,
                                            tool.name, tool.kind, tool))
    /\ UNCHANGED <<config_vars, conc_vars, redo_vars, pc, invocation, llm_inputs, previous_runs,
                   do_outcome, max_iterations, task_result, session_start_messages,
                   iteration, pairs, model_msg, idx, results, run, observe_count,
                   user_content>>

Clear ==
    /\ pc = "registry"
    /\ Len(events) < MaxOps
    /\ tool_registry' = clear(tool_registry)
    /\ events' = Append(events, Event("clear", 0, Len(events) + 1, "", "", ""))
    /\ UNCHANGED <<config_vars, conc_vars, redo_vars, pc, invocation, llm_inputs, previous_runs,
                   do_outcome, max_iterations, task_result, session_start_messages,
                   iteration, pairs, model_msg, idx, results, run, observe_count,
                   user_content>>

NextRegistry == Register \/ Clear

SpecRegistry == InitRegistry /\ [][NextRegistry]_vars

\* positions of the registrations made since the last clear
LiveRegistrations ==
    {i \in DOMAIN events :
        /\ events[i].ev = "register"
        /\ \A j \in i + 1 .. Len(events) : events[j].ev # "clear"}

\* positions of the live registrations under the name
RegistrationsOf(name) == {i \in LiveRegistrations : events[i].name = name}

\* the last of a non-empty set of positions
Latest(S) == CHOOSE i \in S : \A j \in S : j <= i

\* C32: after any sequence of register and clear the registry holds at most
\* one tool per name, get(name) is the tool registered last under the name
\* since the last clear, get of an absent name is a KeyError, and get_all is
\* exactly the set of those last-registered tools.
C32_RegistryMap ==
    pc = "registry" =>
        /\ \A name \in RegistryNames :
              IF RegistrationsOf(name) = {}
              THEN get(tool_registry, name)
                   = [raised |-> "KeyError",
                      msg |-> "Tool '" \o name \o "' not found in registry"]
              ELSE get(tool_registry, name) = events[Latest(RegistrationsOf(name))].arg
        /\ get_all(tool_registry) =
              {events[Latest(RegistrationsOf(name))].arg :
                  name \in {n \in RegistryNames : RegistrationsOf(n) # {}}}
        /\ \A t1, t2 \in get_all(tool_registry) : t1.name = t2.name => t1 = t2

\* complete_work registered twice with different tools after a clear that
\* removed an earlier tool: the second one is held, the cleared one is gone
C32_Witness ==
    /\ pc = "registry" /\ Len(events) = 4
    /\ events[1].ev = "register" /\ events[1].name = "add"
    /\ events[2].ev = "clear"
    /\ events[3].ev = "register" /\ events[3].arg = UserCompleteTool
    /\ events[4].ev = "register" /\ events[4].arg.kind = "complete"
    /\ get_all(tool_registry) = {events[4].arg}

\* ----------------------------------- domain tools named like control tools
\* Agents whose tools include one named complete_work or abort_work
OverrideToolLists ==
    {<<UserCompleteTool>>, <<AddTool, UserAbortTool>>,
     <<UserCompleteTool, UserAbortTool, AddTool>>}

InitOverride ==
    /\ pc = "idle"
    /\ stateful \in BOOLEAN
    /\ previous_runs = <<>>
    /\ do_outcome = NoOutcome
    /\ max_iterations = 0
    /\ task_result = NewTaskResult
    /\ tool_registry = EmptyRegistry
    /\ session_start_messages = <<>>
    /\ iteration = 0
    /\ pairs = <<>>
    /\ model_msg = NoMessage
    /\ idx = 0
    /\ results = <<>>
    /\ run = NoRun
    /\ observe_count = 0
    /\ user_content = <<>>
    /\ events = <<>>
    /\ invocation = 0
    /\ recent_window = DefaultRecentWindow
    /\ obs_lifespan = NoLifespan
    /\ output_schema \in {None, OutputData}
    /\ agent_tools \in OverrideToolLists
    /\ frames = <<>>
    /\ acting = 0
    /\ llm_inputs = <<>>
    /\ redo_pos = 0
    /\ redo_outcome = NoOutcome

NextOverride ==
    Do \/ Bootstrap \/ CallModelControl \/ ExecuteToolCall \/ Observe \/ AgentFinish

SpecOverride == InitOverride /\ [][NextOverride]_vars

\* the control tool TaskRunner.run builds under the name
ControlToolOf(name) ==
    IF name = "complete_work" THEN [CompleteWorkTool EXCEPT !.schema = output_schema]
    ELSE AbortWorkTool

\* C36: in the registry of a run complete_work and abort_work are the run's
\* control tools also when Agent.tools holds tools of these names, and the
\* step that executes a call of one of them whose arguments fit the control
\* tool's Params sets the status of the run.
C36_ControlToolsWin ==
    /\ [](pc \in {"bootstrap", "llm", "dispatch", "observe"}
          => \A name \in ControlNames :
                get(tool_registry, name) = ControlToolOf(name))
    /\ [][(/\ pc = "dispatch"
           /\ CurrentCall.name \in ControlNames
           /\ ParamsValid(ControlToolOf(CurrentCall.name), CurrentCall.arguments))
          => /\ Len(events') = Len(events) + 1
             /\ events'[Len(events')].kind \in {"complete", "abort"}
             /\ task_result'.status =
                   IF CurrentCall.name = "complete_work" THEN COMPLETED ELSE ABORTED]_vars

\* an Agent built with its own complete_work and abort_work tools: the call
\* of complete_work ran the control tool and the run returned completed
C36_Witness ==
    /\ agent_tools = <<UserCompleteTool, UserAbortTool, AddTool>>
    /\ Returned /\ run.result.status = COMPLETED
    /\ \E i \in DOMAIN events :
          /\ events[i].ev = "exec" /\ events[i].name = "complete_work"
          /\ events[i].kind = "complete"

\* ------------------------------------------- two interleaved do() coroutines
\* Two Agent.do coroutines on one stateful Agent, scheduled by one event
\* loop: a coroutine runs without interruption from one await that suspends
\* it (observe, llm.call_tools, tool.execute) to the next, so every action
\* below is the code between two such awaits.  Each coroutine has its own
\* TaskRunner and its own locals of TaskRunner.run (a frame); they share the
\* Agent: _previous_runs, tools and the observe callback.
ConcIter == 1

\* the two coroutines; coroutine f runs do(TaskText(f))
RunIds == {1, 2}

\* the locals of a coroutine that has not been started
NewFrame ==
    [pc |-> "idle", max_iterations |-> 0, task_result |-> NewTaskResult,
     tool_registry |-> EmptyRegistry, user_content |-> <<>>,
     session_start_messages |-> <<>>, iteration |-> 0, pairs |-> <<>>,
     model_msg |-> NoMessage, idx |-> 0, results |-> <<>>, run |-> NoRun,
     outcome |-> NoOutcome]

\* CompleteWorkTool(result, ...) / AbortWorkTool(result): self._result is the
\* TaskResult of coroutine f
BindResult(reg, f) ==
    [n \in DOMAIN reg |->
        IF reg[n].kind \in {"complete", "abort"} THEN [slot |-> f] @@ reg[n] ELSE reg[n]]

\* control tools built once and bound to the TaskResult of the first coroutine
ConcurrentSetup_SharedResult(f) == BindResult(_setup_tools(agent_tools, output_schema), 1)

\* _setup_tools(result, output_schema) in coroutine f: the control tools are
\* new objects holding f's own TaskResult
ConcurrentSetup(f) == BindResult(_setup_tools(agent_tools, output_schema), f)

\* what the model may answer in these runs
ConcBatches ==
    {<<>>,
     <<<<"complete_work", [feedback |-> "ok"]>>>>,
     <<<<"complete_work", [feedback |-> "done", output |-> [value |-> 42]]>>>>,
     <<<<"abort_work", [reason |-> "blocked"]>>>>,
     <<<<"add", [a |-> 1, b |-> 2]>>, <<"complete_work", [feedback |-> "ok"]>>>>}

InitConcurrent ==
    /\ pc = "concurrent"
    /\ stateful = TRUE
    /\ recent_window = DefaultRecentWindow
    /\ obs_lifespan = NoLifespan
    /\ output_schema = None
    /\ agent_tools = AgentTools
    /\ frames = [f \in RunIds |-> NewFrame]
    /\ acting = 0
    /\ previous_runs = <<>>
    /\ do_outcome = NoOutcome
    /\ max_iterations = 0
    /\ task_result = NewTaskResult
    /\ tool_registry = EmptyRegistry
    /\ session_start_messages = <<>>
    /\ iteration = 0
    /\ pairs = <<>>
    /\ model_msg = NoMessage
    /\ idx = 0
    /\ results = <<>>
    /\ run = NoRun
    /\ observe_count = 0
    /\ user_content = <<>>
    /\ events = <<>>
    /\ invocation = 0
    /\ llm_inputs = <<>>
    /\ redo_pos = 0
    /\ redo_outcome = NoOutcome

\* what no coroutine step touches
ConcUnchanged ==
    UNCHANGED <<config_vars, redo_vars, pc, invocation, llm_inputs, do_outcome,
                max_iterations, task_result, tool_registry, session_start_messages,
                iteration, pairs, model_msg, idx, results, run, user_content>>

\* the end of TaskRunner.run and of Agent._run_task in coroutine f, which has
\* no await: the Run is built, appended to _previous_runs, and do() returns
\* it or raises TaskAbortedError
ConcFinish(f, fr, tr, ps, iterations_used) ==
    LET r == [result |-> tr, summary |-> _build_summary(ps),
              messages |-> FlattenPairs(ps), task_description |-> TaskText(f),
              steps_used |-> iterations_used, max_steps |-> fr.max_iterations]
    IN /\ frames' = [frames EXCEPT ![f] =
                       [fr EXCEPT !.pc = "done", !.task_result = tr, !.pairs = ps,
                                  !.run = r, !.model_msg = NoMessage,
                                  !.results = <<>>, !.idx = 0,
                                  !.outcome =
                                      IF tr.status = ABORTED
                                      THEN [kind |-> "raise", exc |-> "TaskAbortedError",
                                            msg |-> AbortMessage(r)]
                                      ELSE [kind |-> "return", exc |-> None,
                                            msg |-> None]]]
       /\ previous_runs' = IF stateful THEN Append(previous_runs, r) ELSE previous_runs
       /\ events' = Append(events, Event("finish", iterations_used, 0, TaskText(f), "", f))

\* do() is called: Agent._run_task, TaskRunner.run up to its first await of
\* observe()
ConcDo(f) ==
    /\ pc = "concurrent"
    /\ frames[f].pc = "idle"
    /\ \E m \in 1 .. ConcIter :
          frames' = [frames EXCEPT ![f] =
                        [@ EXCEPT !.pc = "bootstrap", !.max_iterations = m,
                                  !.task_result = NewTaskResult,
                                  !.tool_registry = ConcurrentSetup(f),
                                  !.user_content =
                                      SessionUserContent(TaskText(f),
                                          IF stateful THEN previous_runs ELSE <<>>)]]
    /\ acting' = f
    /\ UNCHANGED <<previous_runs, events, observe_count>>
    /\ ConcUnchanged

\* observe() of the bootstrap returns; the loop starts
ConcBootstrap(f) ==
    /\ pc = "concurrent"
    /\ frames[f].pc = "bootstrap"
    /\ observe_count' = observe_count + 1
    /\ frames' = [frames EXCEPT ![f] =
                    [@ EXCEPT !.pc = "llm",
                              !.session_start_messages =
                                  <<Message("system", <<Text("system prompt")>>),
                                    Message("user", frames[f].user_content
                                                    \o Observation(observe_count + 1))>>]]
    /\ acting' = f
    /\ UNCHANGED <<previous_runs, events>>
    /\ ConcUnchanged

\* llm.call_tools returns in coroutine f
ConcCallModel(f) ==
    /\ pc = "concurrent"
    /\ frames[f].pc = "llm"
    /\ \E b \in ConcBatches :
          frames' = [frames EXCEPT ![f] =
                        [@ EXCEPT !.model_msg =
                                      Message("model", CallsOf(b, frames[f].iteration + 1)),
                                  !.pc = IF b = <<>> THEN "observe" ELSE "dispatch",
                                  !.idx = 1, !.results = <<>>]]
    /\ acting' = f
    /\ UNCHANGED <<previous_runs, events, observe_count>>
    /\ ConcUnchanged

\* the TaskResult the tool under tc.name of coroutine f writes to
SlotOf(f, tc) ==
    LET reg == frames[f].tool_registry IN
    IF tc.name \in DOMAIN reg /\ "slot" \in DOMAIN reg[tc.name]
    THEN reg[tc.name].slot ELSE f

\* one pass of the loop of execute_tool_calls in coroutine f; a user tool
\* whose execute raised yields an error result as in DispatchOne
ConcExecute(f) ==
    /\ pc = "concurrent"
    /\ frames[f].pc = "dispatch"
    /\ LET fr == frames[f]
           calls == tool_calls_of(fr.model_msg)
           tc == calls[fr.idx]
           slot == SlotOf(f, tc)
       IN \E o \in UserOutcomes :
            LET d == DispatchOne(fr.tool_registry, tc, frames[slot].task_result, o)
                last == d.stop \/ fr.idx = Len(calls)
            IN frames' = [frames EXCEPT
                            ![f] = [@ EXCEPT
                                      !.results =
                                          IF last
                                          THEN Append(fr.results, d.result)
                                               \o SkippedResults(calls, fr.idx)
                                          ELSE Append(fr.results, d.result),
                                      !.pc = IF last THEN "observe" ELSE "dispatch",
                                      !.idx = IF last THEN fr.idx ELSE fr.idx + 1],
                            ![slot] = [@ EXCEPT !.task_result = d.task_result]]
    /\ acting' = f
    /\ UNCHANGED <<previous_runs, events, observe_count>>
    /\ ConcUnchanged

\* observe() of the iteration returns in coroutine f: the pair is appended
\* and the loop goes on, breaks or runs out
ConcObserve(f) ==
    /\ pc = "concurrent"
    /\ frames[f].pc = "observe"
    /\ observe_count' = observe_count + 1
    /\ acting' = f
    /\ LET fr == frames[f]
           response_msg == Message("user", fr.results \o Observation(observe_count + 1))
           ps == Append(fr.pairs, <<fr.model_msg, response_msg>>)
       IN IF fr.task_result.status # Pending
          THEN ConcFinish(f, fr, fr.task_result, ps, fr.iteration + 1)
          ELSE IF fr.iteration + 1 < fr.max_iterations
          THEN /\ frames' = [frames EXCEPT ![f] =
                               [@ EXCEPT !.pairs = ps, !.iteration = fr.iteration + 1,
                                         !.pc = "llm", !.model_msg = NoMessage,
                                         !.results = <<>>, !.idx = 0]]
               /\ UNCHANGED <<previous_runs, events>>
          ELSE ConcFinish(f, fr,
                          [fr.task_result EXCEPT !.status = ABORTED,
                                                 !.feedback = MaxIterationsFeedback],
                          ps, fr.max_iterations)
    /\ ConcUnchanged

NextConcurrent ==
    \E f \in RunIds :
        ConcDo(f) \/ ConcBootstrap(f) \/ ConcCallModel(f) \/ ConcExecute(f) \/ ConcObserve(f)

SpecConcurrent == InitConcurrent /\ [][NextConcurrent]_vars

\* the call coroutine f is about to execute
ConcCurrentCall(f) == tool_calls_of(frames[f].model_msg)[frames[f].idx]

\* the step executes a control call of coroutine f with valid arguments and
\* writes its status, feedback and output to f's TaskResult
OwnControlStep(f) ==
    /\ frames[f].pc = "dispatch"
    /\ ConcCurrentCall(f).name \in ControlNames
    /\ LET args == ConcCurrentCall(f).arguments
           tr == frames'[f].task_result
       IN IF ConcCurrentCall(f).name = "complete_work"
          THEN /\ "feedback" \in DOMAIN args
               /\ tr.status = COMPLETED
               /\ tr.feedback = args.feedback
               /\ tr.output = IF "output" \in DOMAIN args THEN args.output ELSE NoOutput
          ELSE /\ "reason" \in DOMAIN args
               /\ tr.status = ABORTED
               /\ tr.feedback = args.reason
               /\ tr.output = NoOutput

\* the step ends the loop of coroutine f by exhaustion
OwnBoundStep(f) ==
    /\ frames[f].pc = "observe"
    /\ frames[f].task_result.status = Pending
    /\ frames[f].iteration + 1 = frames[f].max_iterations
    /\ frames'[f].task_result =
           [frames[f].task_result EXCEPT !.status = ABORTED,
                                         !.feedback = MaxIterationsFeedback]

\* the control results recorded in the messages of a Run
ControlResultsOf(r) ==
    SelectSeq(RecordedResults(r.messages), ControlResult)

\* C40: with two do() coroutines interleaved on one stateful Agent, the
\* TaskResult of a run changes only in a step of that run, either the execute
\* of its own control call or its own exhausted loop; the Run a coroutine
\* returns has the status its own messages account for; and _previous_runs
\* grows only by the Run of the coroutine that finishes in that step, so it
\* holds each finished Run once, in the order of finishing.
C40_RunsDoNotInterfere ==
    /\ [][\A f \in RunIds :
            frames'[f].task_result # frames[f].task_result
            => acting' = f /\ (OwnControlStep(f) \/ OwnBoundStep(f))]_vars
    /\ [](\A f \in RunIds :
            frames[f].run # NoRun =>
               LET r == frames[f].run IN
               /\ r.result = frames[f].task_result
               /\ r.task_description = TaskText(f)
               /\ IF ControlResultsOf(r) # <<>>
                  THEN r.result.status =
                          IF ControlResultsOf(r)[1].name = "complete_work"
                          THEN COMPLETED ELSE ABORTED
                  ELSE /\ r.result.status = ABORTED
                       /\ r.result.feedback = MaxIterationsFeedback
                       /\ r.steps_used = r.max_steps)
    /\ [][previous_runs' # previous_runs
          => /\ frames[acting'].run = NoRun
             /\ frames'[acting'].run # NoRun
             /\ previous_runs' = Append(previous_runs, frames'[acting'].run)]_vars
    /\ [](/\ Len(previous_runs) = Cardinality({f \in RunIds : frames[f].run # NoRun})
          /\ \A f \in RunIds :
                frames[f].run # NoRun =>
                   Cardinality({i \in DOMAIN previous_runs :
                                   previous_runs[i] = frames[f].run}) = 1)

\* coroutine 1 took the first observation, coroutine 2 started before any
\* run had finished, completed with an output and finished first; coroutine 1
\* then ran out of iterations: _previous_runs holds the Run of 2, then of 1
C40_Witness ==
    /\ pc = "concurrent"
    /\ frames[1].pc = "done" /\ frames[2].pc = "done"
    /\ frames[1].session_start_messages[2].content = 
           <<Text("## Current task:\n" \o TaskText(1))>> \o Observation(1)
    /\ frames[2].user_content = <<Text("## Current task:\n" \o TaskText(2))>>
    /\ previous_runs = <<frames[2].run, frames[1].run>>
    /\ frames[2].run.result.status = COMPLETED
    /\ frames[2].run.result.output = [value |-> 42]
    /\ frames[1].run.result.feedback = MaxIterationsFeedback

============================================================================
